---- MODULE Spec2Model ----
(***************************************************************************)
(* A model of the retrieval core of CV-Job-matching: the segmenter         *)
(* (chunk_cv, chunk_jd), the retriever (retrieve_relevant_chunks), the     *)
(* aggregator (embedding_score_rag, RAGEmbedder.get_similarity_score),     *)
(* the caches (RAGEmbedder._cache, CVCache, RAGCache) and the blocking     *)
(* orchestrator run_pipeline_rag.                                          *)
(*                                                                         *)
(* Conventions.  Sequences are 1-based, Python lists 0-based: position i   *)
(* of the model is index i-1 of the code.  A float similarity is modelled  *)
(* in fixed point, as the nearest integer to Scale times its value; an     *)
(* embedding is a pair of small integers.  A text is a sequence of         *)
(* characters over a small alphabet in which one character stands for a    *)
(* whole section-header word.                                              *)
(***************************************************************************)
EXTENDS Integers, Sequences, FiniteSets, TLC

VARIABLES
    \* ---- retriever / aggregator harness (app/utils/rag.py, similarity.py)
    chunks,            \* retrieve_relevant_chunks: the chunk list
    chunk_embeddings,  \* retrieve_relevant_chunks: one embedding per chunk
    query_embedding,   \* retrieve_relevant_chunks: the query embedding
    top_k,             \* retrieve_relevant_chunks: the requested K
    top_indices,       \* rag.py:204, the selected positions, best first
    top_chunks,        \* rag.py:207
    top_scores,        \* rag.py:208
    pooling,           \* embedding_score_rag: the pooling policy of the call
    score,             \* the value embedding_score_rag / get_similarity_score returned
    rstage,            \* which function of the harness has returned
    \* ---- segmenter harness (app/utils/rag.py)
    text,              \* chunk_cv / chunk_jd: the text
    max_chars,         \* chunk_cv / chunk_jd: the limit
    kind,              \* "cv" or "jd": the document kind of the text
    out_chunks,        \* the chunk list chunk_cv / chunk_jd returned
    cstage,            \* "input", or the function that has returned
    \* ---- cache harness (app/utils/cache.py): one CVCache, one RAGCache
    cv_memory,         \* CVCache.memory_cache
    cv_file,           \* the files <cache_dir>/<hash>.json
    rag_memory,        \* RAGCache.memory_cache
    rag_chunks_file,   \* the files <cache_dir>/<hash>_chunks.json
    rag_emb_file,      \* the files <embeddings_dir>/<hash>_emb.pkl
    wcall,             \* the cache write in progress and the step it is at
    lookup,            \* the get / get_rag_data in progress and the step it is at
    clearing,          \* the clear in progress and the step it is at
    lookup_result,     \* what the last lookup returned, or that it raised
    cleared,           \* history: the caches whose clear has returned, with
                       \* no put since
    stored,            \* history: per cache and key, what the last set /
                       \* set_rag_data that returned was called with, if no
                       \* later write or clear of the key has begun
    \* ---- run_pipeline_rag (app/pipeline.py, app/embedding/rag_embedder.py)
    rag_cache,         \* RAGEmbedder._cache of _rag_embedder, a dict by content key
    pc,                \* per invocation: the call it is in
    args,              \* per invocation: cv_clean, jd_clean, top_k
    branch,            \* per invocation: "hit" or "miss" at pipeline.py:154,
                       \* "hit_in_embed_cv" at rag_embedder.py:52
    cv_data,           \* per invocation: the local cv_data
    work,              \* per invocation: embed_cv's chunks, embed_chunks' list
    jd_call,           \* per invocation: the call embed_text(jd_text)
    jd_embedding,      \* per invocation: what embed_text returned
    retrieved,         \* per invocation: relevant_chunks, chunk_scores
    result,            \* per invocation: what reaches score_cv_rag
    error,             \* per invocation: where the exception was raised
    served,            \* history: the (cv, jd) pairs of the invocations that
                       \* returned since the cache was last cleared of cv
    fresh,             \* history: the texts embed_cv has stored an entry for
                       \* since the last clear_cache of any kind
    \* ---- run_pipeline (app/pipeline.py), the pipeline that uses CVCache
    legacy_run,        \* the invocation of run_pipeline: the call it is in,
                       \* its locals, and what the runs since the last
                       \* clear_cache have stored
    \* ---- POST /rank (app/api/routes/matching.py)
    rank_call          \* the request rank_multiple_cvs serves: the call it
                       \* is in, its locals, the temporary files on disk

ragvars == <<chunks, chunk_embeddings, query_embedding, top_k, top_indices,
             top_chunks, top_scores, pooling, score, rstage>>

segvars == <<text, max_chars, kind, out_chunks, cstage>>

lookupvars == <<lookup, clearing, lookup_result, cleared, stored>>

cachevars == <<cv_memory, cv_file, rag_memory, rag_chunks_file, rag_emb_file, wcall,
               lookupvars>>

pipevars == <<rag_cache, pc, args, branch, cv_data, work, jd_call, jd_embedding,
              retrieved, result, error, served, fresh>>

vars == <<ragvars, segvars, cachevars, pipevars, legacy_run, rank_call>>

\* The variables each part of the model leaves alone.
notrag == <<segvars, cachevars, pipevars, legacy_run, rank_call>>

notseg == <<ragvars, cachevars, pipevars, legacy_run, rank_call>>

notcache == <<ragvars, segvars, pipevars, legacy_run, rank_call>>

notpipe == <<ragvars, segvars, cachevars, legacy_run, rank_call>>

\* ------------------------------------------------------------------ bounds

\* Most files uploaded in one POST /rank.
MaxFiles == 3

\* Longest chunk list the retriever and the aggregator are applied to.
MaxChunks == 3

\* Longest text, in characters, the segmenter is applied to.
MaxTextLen == 5

\* Largest max_chars the segmenter is applied with.
MaxLimit == 3

\* ------------------------------------------------------------- arithmetic

\* Fixed-point unit: a similarity s is held as round(Scale * s), so that
\* round(s * 100, 1) (similarity.py:67) is the held integer, in tenths.
Scale == 1000

Min(a, b) == IF a <= b THEN a ELSE b

Abs(a) == IF a < 0 THEN -a ELSE a

RECURSIVE SumSeq(_)
SumSeq(s) == IF s = <<>> THEN 0 ELSE Head(s) + SumSeq(Tail(s))

\* Nearest integer to n / d for d > 0 (halves away from zero).
RoundDiv(n, d) ==
    IF n >= 0 THEN (2 * n + d) \div (2 * d) ELSE -((2 * (-n) + d) \div (2 * d))

\* Embeddings the Vector Provider may produce: pairs of small integers, with
\* parallel pairs, opposite pairs and the zero vector among them.
Vecs == {<<1, 0>>, <<2, 0>>, <<0, 1>>, <<-1, 0>>, <<1, 1>>, <<0, 0>>}

Dot(a, b) == a[1] * b[1] + a[2] * b[2]

NormSq(a) == Dot(a, a)

\* The value numpy gives 0/0: not a number.  It is larger than every
\* similarity here because numpy's sort places nan last.
NaN == Scale + Scale

\* round(Scale * x / sqrt(m)) for x >= 0, m > 0: the largest r with
\* (2r - 1) * sqrt(m) <= 2 * Scale * x.
RoundOverSqrt(x, m) ==
    CHOOSE r \in 0..Scale :
        /\ \/ r = 0
           \/ (2 * r - 1) * (2 * r - 1) * m <= 4 * Scale * Scale * x * x
        /\ \/ r = Scale
           \/ (2 * r + 1) * (2 * r + 1) * m > 4 * Scale * Scale * x * x

\* dot(a, b) / (norm(a) * norm(b)), tabulated over the embeddings.
CosTable ==
    [a \in Vecs, b \in Vecs |->
        LET d == Dot(a, b)
            m == NormSq(a) * NormSq(b)
        IN  IF m = 0 THEN NaN
            ELSE IF d >= 0 THEN RoundOverSqrt(d, m) ELSE -RoundOverSqrt(-d, m)]

\* rag.py:164-175 (and cosine, similarity.py:6-7).
cosine_similarity(a, b) == CosTable[a, b]

\* Python's x < y and x > y on floats: false whenever a nan is compared.
FloatLt(x, y) == x # NaN /\ y # NaN /\ x < y

FloatGt(x, y) == FloatLt(y, x)

\* ------------------------------------------------------------- retriever

\* The permutations of 1..n, as sequences.
Perms(n) ==
    {p \in [1..n -> 1..n] : \A i, j \in 1..n : i # j => p[i] # p[j]}

\* np.argsort(scores), rag.py:204: a permutation of the positions that puts
\* the scores in ascending order, nan last.  The default sort kind is not
\* stable, so positions of equal score may come out in either order: every
\* such permutation is an outcome.
ArgSorts(scores) ==
    {p \in Perms(Len(scores)) :
        \A i \in 1..(Len(scores) - 1) : scores[p[i]] <= scores[p[i + 1]]}

\* A slip of LastK: s[:k], the first k elements of the ascending order.
LastK_first(s, k) == SubSeq(s, 1, k)

\* Python's s[-k:] for 0 <= k <= len(s): the last k elements, and, because
\* -0 is 0, the whole of s when k = 0.
LastK(s, k) ==
    IF k = 0 THEN s ELSE SubSeq(s, Len(s) - k + 1, Len(s))

\* Python's s[::-1].
\* A slip of Reverse: the [::-1] is left out and the ascending order kept.
Reverse_none(s) == s

Reverse(s) == [i \in 1..Len(s) |-> s[Len(s) + 1 - i]]

\* rag.py:197-200.
Scores(embs, q) == [i \in 1..Len(embs) |-> cosine_similarity(embs[i], q)]

\* rag.py:203-204, given the outcome `order` of np.argsort(scores).
TopIndices(cs, k, order) == Reverse(LastK(order, Min(k, Len(cs))))

\* A slip of retrieve_relevant_chunks: an early return for an empty list that
\* hands back a placeholder chunk and score instead of nothing.
retrieve_relevant_chunks_placeholder(cs, embs, q, k, order) ==
    IF cs = <<>> THEN << <<>>, <<0>>, <<0>> >>
    ELSE LET idx == Reverse(LastK(order, Min(k, Len(cs))))
             sc == Scores(embs, q)
         IN  <<idx, [i \in 1..Len(idx) |-> cs[idx[i]]],
               [i \in 1..Len(idx) |-> sc[idx[i]]]>>

\* rag.py:178-210: retrieve_relevant_chunks, returning
\* (top_indices, top_chunks, top_scores).
retrieve_relevant_chunks(cs, embs, q, k, order) ==
    LET idx == TopIndices(cs, k, order)
        sc == Scores(embs, q)
    IN  <<idx,
          [i \in 1..Len(idx) |-> cs[idx[i]]],
          [i \in 1..Len(idx) |-> sc[idx[i]]]>>

\* ------------------------------------------------------------ aggregator

\* Python's max(similarities): the first element, replaced by each later
\* one that compares greater.
RECURSIVE PyMaxFrom(_, _)
PyMaxFrom(m, s) ==
    IF s = <<>> THEN m
    ELSE PyMaxFrom(IF FloatGt(Head(s), m) THEN Head(s) ELSE m, Tail(s))

PyMax(s) == PyMaxFrom(Head(s), Tail(s))

HasNaN(s) == \E i \in 1..Len(s) : s[i] = NaN

\* sorted(similarities, reverse=True), similarity.py:61: the similarities
\* in descending order; with a nan among them no order is guaranteed and
\* every arrangement is an outcome.
SortedDesc(sims) ==
    {[i \in 1..Len(sims) |-> sims[p[i]]] : p \in
        {p \in Perms(Len(sims)) :
            HasNaN(sims) \/ \A i \in 1..(Len(sims) - 1) :
                                sims[p[i]] >= sims[p[i + 1]]}}

\* similarity.py:62: weights = [0.5, 0.3, 0.2], in tenths.
Weights == <<5, 3, 2>>

\* A slip of the weighted policy: the weights of the chunks present are
\* renormalised to sum to one.
WeightedScore_renormalised(srt) ==
    LET n == Min(3, Len(srt))
    IN  IF HasNaN(SubSeq(srt, 1, n)) THEN NaN
        ELSE RoundDiv(SumSeq([i \in 1..n |-> srt[i] * Weights[i]]),
                      SumSeq(SubSeq(Weights, 1, n)))

\* similarity.py:61-63: the top 3 of `srt` weighted by rank, the weights
\* cut to the number of chunks and not renormalised.
WeightedScore(srt) ==
    LET n == Min(3, Len(srt))
    IN  IF HasNaN(SubSeq(srt, 1, n)) THEN NaN
        ELSE RoundDiv(SumSeq([i \in 1..n |-> srt[i] * Weights[i]]), 10)

\* np.mean(similarities), similarity.py:58.
MeanScore(sims) ==
    IF HasNaN(sims) THEN NaN ELSE RoundDiv(SumSeq(sims), Len(sims))

\* round(score * 100, 1), similarity.py:67: the similarity in tenths of a
\* point, which is the fixed-point value itself; nan stays nan.
RoundScore(s) == s

\* A slip of embedding_score_rag: the empty list is pooled like any other
\* under mean, and np.mean of no values is nan.
embedding_score_rag_mean_of_empty(embs, q, p, srt) ==
    IF embs = <<>> THEN (IF p = "mean" THEN NaN ELSE 0)
    ELSE LET sims == Scores(embs, q)
         IN  RoundScore(CASE p = "max" -> PyMax(sims)
                          [] p = "mean" -> MeanScore(sims)
                          [] p = "weighted" -> WeightedScore(srt)
                          [] OTHER -> PyMax(sims))

\* similarity.py:27-67: embedding_score_rag, given the outcome `srt` of
\* sorted(similarities, reverse=True).
embedding_score_rag(embs, q, p, srt) ==
    IF embs = <<>> THEN 0
    ELSE LET sims == Scores(embs, q)
         IN  RoundScore(CASE p = "max" -> PyMax(sims)
                          [] p = "mean" -> MeanScore(sims)
                          [] p = "weighted" -> WeightedScore(srt)
                          [] OTHER -> PyMax(sims))

\* rag_embedder.py:119-147: RAGEmbedder.get_similarity_score.
get_similarity_score(embs, q) ==
    LET sims == Scores(embs, q)
    IN  RoundScore(IF sims # <<>> THEN PyMax(sims) ELSE 0)

\* -------------------------------------------------------------- segmenter

\* Whitespace: what \s matches and str.strip() removes.
WS == {" ", "\n"}

\* One character stands for a whole header word.  chunk_cv's patterns
\* (rag.py:34-40): "S" for the SKILLS alternatives, "E" for the EXPERIENCE
\* alternatives.
CvPatterns == <<{"S"}, {"E"}>>

\* chunk_jd's patterns (rag.py:87-92): "R" for the REQUIREMENTS
\* alternatives, "D" for the RESPONSIBILITIES / JOB DUTIES / ROLE ones.
JdPatterns == <<{"R"}, {"D"}>>

\* Positions of s from i on that hold a character outside (inside) ws.
FirstNonWS(s, i) ==
    LET c == {j \in i..Len(s) : s[j] \notin WS}
    IN  IF c = {} THEN 0 ELSE CHOOSE j \in c : \A k \in c : j <= k

\* str.strip().
Strip(s) ==
    LET c == {j \in 1..Len(s) : s[j] \notin WS}
    IN  IF c = {} THEN <<>>
        ELSE SubSeq(s, CHOOSE j \in c : \A k \in c : j <= k,
                       CHOOSE j \in c : \A k \in c : j >= k)

\* Where a match of \n\s*(?:header)\s*\n that starts at position i of s
\* ends, 0 when none starts there: s[i] is a newline, the first character
\* after it that is not whitespace is a header word of hs, and the
\* whitespace after the word holds a newline; the greedy \s* gives the
\* match up to the last such newline.
MatchEnd(s, i, hs) ==
    IF s[i] # "\n" THEN 0
    ELSE LET h == FirstNonWS(s, i + 1)
         IN  IF h = 0 \/ s[h] \notin hs THEN 0
             ELSE LET n == FirstNonWS(s, h + 1)
                      stop == IF n = 0 THEN Len(s) ELSE n - 1
                      nl == {j \in (h + 1)..stop : s[j] = "\n"}
                  IN  IF nl = {} THEN 0
                      ELSE CHOOSE j \in nl : \A k \in nl : j >= k

\* re.split(pattern, section, flags=re.IGNORECASE), rag.py:47: the pieces
\* of s from position `from` on, between the leftmost non-overlapping
\* matches; the matched text, header word included, is in no piece.
RECURSIVE SplitFrom(_, _, _)
SplitFrom(s, from, hs) ==
    LET starts == {i \in from..Len(s) : MatchEnd(s, i, hs) > 0}
    IN  IF starts = {} THEN <<SubSeq(s, from, Len(s))>>
        ELSE LET i == CHOOSE i \in starts : \A k \in starts : i <= k
             IN  <<SubSeq(s, from, i - 1)>> \o SplitFrom(s, MatchEnd(s, i, hs) + 1, hs)

ReSplit(s, hs) == SplitFrom(s, 1, hs)

\* [p.strip() for p in parts if p.strip()], rag.py:48.
RECURSIVE StripNonEmpty(_)
StripNonEmpty(parts) ==
    IF parts = <<>> THEN <<>>
    ELSE (IF Strip(Head(parts)) = <<>> THEN <<>> ELSE <<Strip(Head(parts))>>)
         \o StripNonEmpty(Tail(parts))

\* rag.py:45-49, one pattern applied to every section.
RECURSIVE SplitSections(_, _)
SplitSections(sections, hs) ==
    IF sections = <<>> THEN <<>>
    ELSE StripNonEmpty(ReSplit(Head(sections), hs))
         \o SplitSections(Tail(sections), hs)

\* rag.py:43-49, the patterns applied in order.
RECURSIVE SplitByPatterns(_, _)
SplitByPatterns(sections, patterns) ==
    IF patterns = <<>> THEN sections
    ELSE SplitByPatterns(SplitSections(sections, Head(patterns)), Tail(patterns))

\* str.split("\n"): the lines of s, empty ones included.
RECURSIVE SplitLines(_)
SplitLines(s) ==
    LET nl == {j \in 1..Len(s) : s[j] = "\n"}
    IN  IF nl = {} THEN <<s>>
        ELSE LET j == CHOOSE j \in nl : \A k \in nl : j <= k
             IN  <<SubSeq(s, 1, j - 1)>> \o SplitLines(SubSeq(s, j + 1, Len(s)))

\* A slip of Overflows: the newline that joins the line is not counted.
Overflows_no_newline(current, line, limit) ==
    Len(current) + Len(line) > limit

\* rag.py:60: len(current) + len(line) + 1 > max_chars.
Overflows(current, line, limit) ==
    Len(current) + Len(line) + 1 > limit

\* A slip of Flush: the buffer is appended as it is, blank or not.
Flush_unchecked(current) == <<current>>

\* What a flush of the buffer appends, rag.py:61-62 and 67-68.
Flush(current) ==
    IF Strip(current) = <<>> THEN <<>> ELSE <<Strip(current)>>

\* A slip of LineStep: on overflow the buffer is replaced without being
\* flushed, so its lines are lost.
LineStep_no_flush(acc, line, limit) ==
    IF Overflows(acc.current, line, limit)
    THEN [out |-> acc.out, current |-> line]
    ELSE [out |-> acc.out,
          current |-> IF acc.current # <<>>
                      THEN acc.current \o <<"\n">> \o line ELSE line]

\* rag.py:59-65, one turn of the loop over the lines of a long section.
LineStep(acc, line, limit) ==
    IF Overflows(acc.current, line, limit)
    THEN [out |-> acc.out \o Flush(acc.current), current |-> line]
    ELSE [out |-> acc.out,
          current |-> IF acc.current # <<>>
                      THEN acc.current \o <<"\n">> \o line ELSE line]

RECURSIVE LineLoop(_, _, _)
LineLoop(acc, lines, limit) ==
    IF lines = <<>> THEN acc
    ELSE LineLoop(LineStep(acc, Head(lines), limit), Tail(lines), limit)

\* rag.py:52-68, the chunks of one section.
ChunkSection(section, limit) ==
    IF Len(section) <= limit THEN Flush(section)
    ELSE LET acc == LineLoop([out |-> <<>>, current |-> <<>>],
                             SplitLines(section), limit)
         IN  acc.out \o Flush(acc.current)

RECURSIVE ChunkSections(_, _)
ChunkSections(sections, limit) ==
    IF sections = <<>> THEN <<>>
    ELSE ChunkSection(Head(sections), limit) \o ChunkSections(Tail(sections), limit)

\* rag.py:13-70.
chunk_cv(t, limit) == ChunkSections(SplitByPatterns(<<t>>, CvPatterns), limit)

\* rag.py:73-120.
chunk_jd(t, limit) == ChunkSections(SplitByPatterns(<<t>>, JdPatterns), limit)

\* ------------------------------------------------------------------ cache

\* The content keys of the cache harness.
Keys == {"h1", "h2"}

\* No entry in a dict, no file on disk.
Absent == [state |-> "absent"]

\* A file opened for writing and not yet written: open(..., 'w') has
\* created or truncated it.
Truncated == [state |-> "truncated"]

\* ---- json.dump / json.load and pickle.dump / pickle.load, as the cache
\* uses them: a file holds the characters (the items) the dump wrote.

\* json's escape of one character inside a string literal.
JsonEscape(c) ==
    IF c = "\"" THEN <<"\\", "\"">>
    ELSE IF c = "\\" THEN <<"\\", "\\">>
    ELSE IF c = "\n" THEN <<"\\", "n">>
    ELSE <<c>>

RECURSIVE JsonChars(_)
JsonChars(str) ==
    IF str = <<>> THEN <<>> ELSE JsonEscape(Head(str)) \o JsonChars(Tail(str))

\* A str as a JSON string literal.
JsonString(str) == <<"\"">> \o JsonChars(str) \o <<"\"">>

\* indent=2: a newline and two spaces before each item.
JsonIndent == <<"\n", " ", " ">>

RECURSIVE JsonItems(_)
JsonItems(l) ==
    IF Len(l) = 1 THEN JsonIndent \o JsonString(l[1])
    ELSE JsonIndent \o JsonString(Head(l)) \o <<",">> \o JsonItems(Tail(l))

\* json.dump(chunks, f, ensure_ascii=False, indent=2) of a list of str
\* (cache.py:118).
json_dump_list(l) ==
    IF l = <<>> THEN <<"[", "]">>
    ELSE <<"[">> \o JsonItems(l) \o <<"\n", "]">>

\* json.dump(data, f, ensure_ascii=False, indent=2) of the dict of
\* pipeline.py:64-67 (cache.py:42).
json_dump_dict(d) ==
    <<"{">> \o JsonIndent \o JsonString(<<"parsed">>) \o <<":", " ">>
            \o JsonString(d.parsed) \o <<",">>
            \o JsonIndent \o JsonString(<<"clean_text">>) \o <<":", " ">>
            \o JsonString(d.clean_text) \o <<"\n", "}">>

\* A slip of the decoder: the character after a backslash is taken as it
\* is.
JsonUnescape_verbatim(c) == c

\* The character an escape stands for.
JsonUnescape(c) == IF c = "n" THEN "\n" ELSE c

\* The scanner of json.load over the characters t from position i: the
\* string literals of the document, decoded, in order.
RECURSIVE JsonScan(_, _, _, _, _)
JsonScan(t, i, inside, cur, acc) ==
    IF i > Len(t) THEN acc
    ELSE IF ~inside
         THEN JsonScan(t, i + 1, t[i] = "\"", <<>>, acc)
         ELSE IF t[i] = "\"" THEN JsonScan(t, i + 1, FALSE, <<>>, Append(acc, cur))
         ELSE IF t[i] = "\\" /\ i < Len(t)
              THEN JsonScan(t, i + 2, TRUE, Append(cur, JsonUnescape(t[i + 1])), acc)
              ELSE JsonScan(t, i + 1, TRUE, Append(cur, t[i]), acc)

\* json.load(f) of a file json_dump_list wrote (cache.py:80).
json_load_list(t) == JsonScan(t, 1, FALSE, <<>>, <<>>)

\* json.load(f) of a file json_dump_dict wrote (cache.py:28): the dict of
\* the keys and values in the document.
json_load_dict(t) ==
    LET strs == JsonScan(t, 1, FALSE, <<>>, <<>>)
        pairs == 1..(Len(strs) \div 2)
    IN  [k \in {strs[2 * i - 1][1] : i \in pairs} |->
            strs[2 * (CHOOSE i \in pairs : strs[2 * i - 1][1] = k)]]

RECURSIVE PickleItems(_)
PickleItems(es) ==
    IF es = <<>> THEN <<>>
    ELSE <<Len(Head(es))>> \o Head(es) \o PickleItems(Tail(es))

\* pickle.dump(embeddings, f) of a list of arrays (cache.py:123): the
\* length of the list, then each array as its length and its items.
pickle_dump(es) == <<Len(es)>> \o PickleItems(es)

RECURSIVE PickleRead(_, _, _)
PickleRead(t, i, n) ==
    IF n = 0 THEN <<>>
    ELSE <<SubSeq(t, i + 1, i + t[i])>> \o PickleRead(t, i + 1 + t[i], n - 1)

\* pickle.load(f) of a file pickle_dump wrote (cache.py:84).
pickle_load(t) == PickleRead(t, 2, t[1])

\* The chunk texts of the cache harness: one of plain characters, one with
\* a newline, a quote and a backslash.
PlainChunk == <<"a">>

QuotedChunk == <<"b", "\n", "\"", "\\">>

\* The (chunks, embeddings) pairs set_rag_data is called with.
RagPayloads ==
    { << <<PlainChunk>>, << <<1, 0>> >> >>,
      << <<PlainChunk, QuotedChunk>>, << <<1, 0>>, <<0, 1>> >> >> }

\* The data CVCache.set is called with (pipeline.py:64-67): the JSON text
\* parse_cv returned and the cleaned text.
CvPayloads ==
    { [parsed |-> <<"{", "\"", "s", "\"", "}">>, clean_text |-> <<"a", "\n", "b">>],
      [parsed |-> <<"{", "}">>, clean_text |-> <<"b", "\\">>] }

NoCall == [op |-> "none"]

\* No lookup, no clear in progress; no lookup made yet.
NoLookup == [op |-> "none"]

NoClear == [cache |-> "none"]

NoResult == [op |-> "none"]

\* cache.py:106-110, the dict set_rag_data stores.
RagEntry(cs, es) == [chunks |-> cs, embeddings |-> es, num_chunks |-> Len(cs)]
\* What a dict holds under a key, what a file holds once dumped.
Written(x) == [state |-> "written", content |-> x]

\* --------------------------------------------------------------- pipeline

\* The threads that call run_pipeline_rag: the blocking program has one.
Procs == {"main"}

\* Python's None.
None == [py |-> "None"]

\* No set and no set_rag_data has returned for any key.
NothingStored == [cv |-> [k \in Keys |-> None], rag |-> [k \in Keys |-> None]]

\* No POST /rank has been received.
NoRank ==
    [pc |-> "idle", files |-> <<>>, i |-> 0, results |-> <<>>, tmp |-> {},
     made |-> {}, failed |-> {}, response |-> None]

\* run_pipeline has not been called, and no run has stored anything.
NoRun ==
    [pc |-> "idle", key |-> "h1", cached |-> None, cv_json |-> None,
     parsed |-> FALSE, wrote |-> FALSE, first |-> None,
     done |-> [k \in Keys |-> None]]

\* chunk_cv's default max_chars (rag.py:13), which embed_cv relies on.
DefaultMaxChars == 500

\* The cleaned CV texts of the invocations: one of no chunk, one of one
\* chunk and one that its two header lines cut into three chunks.
CvTexts ==
    { <<>>,
      <<"a", "a">>,
      <<"a", "\n", "S", "\n", "a", "a", "\n", "E", "\n", "a">> }

\* The cleaned job descriptions of the invocations.
JdTexts == { <<"a">>, <<"a", "a">> }

\* The top_k values of the invocations: 1, and the default 5
\* (pipeline.py:128).
PipeTopKs == {1, 5}

\* What ollama.embeddings returns for a prompt (rag.py:137-141, 157-161):
\* a vector fixed by the text.
Embedding(t) ==
    IF Len(t) = 1 THEN <<1, 0>> ELSE IF Len(t) = 2 THEN <<1, 1>> ELSE <<0, 1>>

\* rag_embedder.py:22-32: the SHA-256 digest of the text, one digest per
\* text.
get_cv_hash(t) == <<"sha256", t>>

\* Python's truth value of what dict.get returned: None is false, a dict
\* with keys is true (pipeline.py:154).
Truthy(x) == x # None

\* dict.get(key), rag_embedder.py:85.
DictGet(d, k) == IF k \in DOMAIN d THEN d[k] ELSE None

\* rag_embedder.py:74-85: RAGEmbedder.get_cached_cv.
get_cached_cv(cache, t) == DictGet(cache, get_cv_hash(t))

\* rag_embedder.py:62-68: the dict embed_cv builds.
CvEntry(t, cs, es) ==
    [cv_hash |-> get_cv_hash(t), chunks |-> cs, embeddings |-> es,
     num_chunks |-> Len(cs), cv_text |-> t]

\* A slip of StoreInCache: the entry is returned and never stored.
StoreInCache_skip(cache, k, e) == cache

\* A slip of StoreInCache: a key already present has the new chunks and
\* embeddings appended to the stored ones.
StoreInCache_append(cache, k, e) ==
    [x \in DOMAIN cache \cup {k} |->
        IF x # k THEN cache[x]
        ELSE IF k \in DOMAIN cache
             THEN [e EXCEPT !.chunks = cache[k].chunks \o e.chunks,
                            !.embeddings = cache[k].embeddings \o e.embeddings,
                            !.num_chunks = cache[k].num_chunks + e.num_chunks]
             ELSE e]

\* rag_embedder.py:70: self._cache[cv_hash] = result.
StoreInCache(cache, k, e) ==
    [x \in DOMAIN cache \cup {k} |-> IF x = k THEN e ELSE cache[x]]

\* A slip of CacheAfterProviderError: what was embedded before the error
\* is stored on the way out.
CacheAfterProviderError_partial(cache, t, cs, es) ==
    StoreInCache(cache, get_cv_hash(t), CvEntry(t, cs, es))

\* rag_embedder.py:59: an exception of embed_chunks leaves embed_cv at once;
\* line 70 is not reached and the cache is as it was.
CacheAfterProviderError(cache, t, cs, es) == cache

\* del self._cache[cv_hash], rag_embedder.py:169.
DictDel(d, k) == [x \in DOMAIN d \ {k} |-> d[x]]

\* The locals of an invocation that has not started.
NoWork == [chunks |-> <<>>, embeddings |-> <<>>]

NoArgs == [cv |-> <<>>, jd |-> <<>>, top_k |-> 0]

NoError == [at |-> "none", chunk |-> 0]

\* ------------------------------------------------------- parts at rest

\* Each specification below runs one part of the model; the variables of
\* the other parts stay as these predicates set them.
SegIdle ==
    /\ text = <<>> /\ max_chars = 1 /\ kind = "cv"
    /\ out_chunks = <<>> /\ cstage = "idle"

RagIdle ==
    /\ chunks = <<>> /\ chunk_embeddings = <<>> /\ query_embedding = <<0, 0>>
    /\ top_k = 0 /\ top_indices = <<>> /\ top_chunks = <<>> /\ top_scores = <<>>
    /\ pooling = "none" /\ score = 0 /\ rstage = "idle"

\* ------------------------------------------------------ segmenter harness

\* The characters of a text of each kind: a letter, a space, a newline and
\* the header words of the kind.
Alphabet(k) ==
    IF k = "cv" THEN {"a", " ", "\n", "S", "E"} ELSE {"a", " ", "\n", "R", "D"}

\* The text of test_installation.py:51-54 and of its like without the
\* leading newline: a SKILLS line, a body line, a blank line, an EXPERIENCE
\* line and a body line of several words.
SkillsExperienceText == <<"S", "\n", "a", "\n", "\n", "E", "\n", "a", " ", "a">>

Texts(k) ==
    UNION {[1..n -> Alphabet(k)] : n \in 0..MaxTextLen}
        \cup (IF k = "cv"
              THEN {SkillsExperienceText, <<"\n">> \o SkillsExperienceText}
              ELSE {})

\* The limits tried: none at all, the small ones, and the default.
Limits == 0..MaxLimit \cup {DefaultMaxChars}

SegInit ==
    /\ kind \in {"cv", "jd"}
    /\ text \in Texts(kind)
    /\ max_chars \in Limits
    /\ out_chunks = <<>>
    /\ cstage = "input"

\* A call of chunk_cv on a CV text.
ChunkCv ==
    /\ cstage = "input" /\ kind = "cv"
    /\ out_chunks' = chunk_cv(text, max_chars)
    /\ cstage' = "chunk_cv"
    /\ UNCHANGED <<text, max_chars, kind>>
    /\ UNCHANGED notseg

\* A call of chunk_jd on a job description.
ChunkJd ==
    /\ cstage = "input" /\ kind = "jd"
    /\ out_chunks' = chunk_jd(text, max_chars)
    /\ cstage' = "chunk_jd"
    /\ UNCHANGED <<text, max_chars, kind>>
    /\ UNCHANGED notseg

\* ------------------------------------------- retriever/aggregator harness

\* The chunk texts of the harness: chunk i of a list is named by i.
ChunkLists == {[i \in 1..n |-> i] : n \in 0..MaxChunks}

EmbLists == UNION {[1..n -> Vecs] : n \in 0..MaxChunks}

\* The K values tried: 0, every K up to the list length, and one beyond.
TopKs == 0..(MaxChunks + 1)

\* Pooling names: the three known policies and an unknown one.
Poolings == {"max", "mean", "weighted", "median"}

RagInit ==
    /\ chunk_embeddings \in EmbLists
    /\ chunks = [i \in 1..Len(chunk_embeddings) |-> i]
    /\ query_embedding \in Vecs
    /\ top_k \in TopKs
    /\ top_indices = <<>>
    /\ top_chunks = <<>>
    /\ top_scores = <<>>
    /\ pooling = "none"
    /\ score = 0
    /\ rstage = "input"

\* A call of retrieve_relevant_chunks on the inputs.
Retrieve ==
    /\ rstage = "input"
    /\ \E order \in ArgSorts(Scores(chunk_embeddings, query_embedding)) :
          LET r == retrieve_relevant_chunks(chunks, chunk_embeddings,
                                            query_embedding, top_k, order)
          IN  /\ top_indices' = r[1]
              /\ top_chunks' = r[2]
              /\ top_scores' = r[3]
    /\ rstage' = "retrieve_relevant_chunks"
    /\ UNCHANGED <<chunks, chunk_embeddings, query_embedding, top_k, pooling, score>>
    /\ UNCHANGED notrag

\* A call of embedding_score_rag on the inputs, under each pooling name.
EmbeddingScoreRag ==
    /\ rstage = "input"
    /\ \E p \in Poolings :
       \E srt \in SortedDesc(Scores(chunk_embeddings, query_embedding)) :
          /\ pooling' = p
          /\ score' = embedding_score_rag(chunk_embeddings, query_embedding, p, srt)
    /\ rstage' = "embedding_score_rag"
    /\ UNCHANGED <<chunks, chunk_embeddings, query_embedding, top_k,
                   top_indices, top_chunks, top_scores>>
    /\ UNCHANGED notrag

\* A call of RAGEmbedder.get_similarity_score on the inputs.
GetSimilarityScore ==
    /\ rstage = "input"
    /\ score' = get_similarity_score(chunk_embeddings, query_embedding)
    /\ rstage' = "get_similarity_score"
    /\ UNCHANGED <<chunks, chunk_embeddings, query_embedding, top_k,
                   top_indices, top_chunks, top_scores, pooling>>
    /\ UNCHANGED notrag

\* ------------------------------------------------------------ cache writes

CacheInit ==
    /\ cv_memory = [k \in Keys |-> Absent]
    /\ cv_file = [k \in Keys |-> Absent]
    /\ rag_memory = [k \in Keys |-> Absent]
    /\ rag_chunks_file = [k \in Keys |-> Absent]
    /\ rag_emb_file = [k \in Keys |-> Absent]
    /\ wcall = NoCall
    /\ lookup = NoLookup
    /\ clearing = NoClear
    /\ lookup_result = NoResult
    /\ cleared = {}
    /\ stored = NothingStored
    /\ legacy_run = NoRun
    /\ rank_call = NoRank

\* RAGCache.set_rag_data is called (cache.py:97).
SetRagDataCall ==
    /\ wcall = NoCall
    /\ \E k \in Keys : \E d \in RagPayloads :
          /\ wcall' = [op |-> "set_rag_data", key |-> k, chunks |-> d[1],
                       embeddings |-> d[2], at |-> "memory"]
          /\ stored' = [stored EXCEPT !.rag[k] = None]
    /\ cleared' = cleared \ {"rag"}
    /\ UNCHANGED <<cv_memory, cv_file, rag_memory, rag_chunks_file, rag_emb_file>>
    /\ UNCHANGED <<lookup, clearing, lookup_result>>
    /\ UNCHANGED notcache

\* cache.py:113: self.memory_cache[cv_hash] = data.
SetRagDataMemory ==
    /\ wcall.op = "set_rag_data" /\ wcall.at = "memory"
    /\ rag_memory' = [rag_memory EXCEPT
                         ![wcall.key] =
                             Written(RagEntry(wcall.chunks, wcall.embeddings))]
    /\ wcall' = [wcall EXCEPT !.at = "open_chunks"]
    /\ UNCHANGED <<cv_memory, cv_file, rag_chunks_file, rag_emb_file>>
    /\ UNCHANGED lookupvars
    /\ UNCHANGED notcache

\* cache.py:116-117: open(chunks_file, 'w').
SetRagDataOpenChunks ==
    /\ wcall.op = "set_rag_data" /\ wcall.at = "open_chunks"
    /\ rag_chunks_file' = [rag_chunks_file EXCEPT ![wcall.key] = Truncated]
    /\ wcall' = [wcall EXCEPT !.at = "dump_chunks"]
    /\ UNCHANGED <<cv_memory, cv_file, rag_memory, rag_emb_file>>
    /\ UNCHANGED lookupvars
    /\ UNCHANGED notcache

\* cache.py:118: json.dump(chunks, f).
SetRagDataDumpChunks ==
    /\ wcall.op = "set_rag_data" /\ wcall.at = "dump_chunks"
    /\ rag_chunks_file' = [rag_chunks_file EXCEPT
                             ![wcall.key] = Written(json_dump_list(wcall.chunks))]
    /\ wcall' = [wcall EXCEPT !.at = "open_emb"]
    /\ UNCHANGED <<cv_memory, cv_file, rag_memory, rag_emb_file>>
    /\ UNCHANGED lookupvars
    /\ UNCHANGED notcache

\* cache.py:121-122: open(embeddings_file, 'wb').
SetRagDataOpenEmb ==
    /\ wcall.op = "set_rag_data" /\ wcall.at = "open_emb"
    /\ rag_emb_file' = [rag_emb_file EXCEPT ![wcall.key] = Truncated]
    /\ wcall' = [wcall EXCEPT !.at = "dump_emb"]
    /\ UNCHANGED <<cv_memory, cv_file, rag_memory, rag_chunks_file>>
    /\ UNCHANGED lookupvars
    /\ UNCHANGED notcache

\* cache.py:123: pickle.dump(embeddings, f), and the return.
SetRagDataDumpEmb ==
    /\ wcall.op = "set_rag_data" /\ wcall.at = "dump_emb"
    /\ rag_emb_file' = [rag_emb_file EXCEPT
                          ![wcall.key] = Written(pickle_dump(wcall.embeddings))]
    /\ wcall' = NoCall
    /\ stored' = [stored EXCEPT !.rag[wcall.key] =
                                    RagEntry(wcall.chunks, wcall.embeddings)]
    /\ UNCHANGED <<cv_memory, cv_file, rag_memory, rag_chunks_file>>
    /\ UNCHANGED <<lookup, clearing, lookup_result, cleared>>
    /\ UNCHANGED notcache

\* CVCache.set is called (cache.py:34).
CvSetCall ==
    /\ wcall = NoCall
    /\ \E k \in Keys : \E d \in CvPayloads :
          /\ wcall' = [op |-> "set", key |-> k, data |-> d, at |-> "memory"]
          /\ stored' = [stored EXCEPT !.cv[k] = None]
    /\ cleared' = cleared \ {"cv"}
    /\ UNCHANGED <<cv_memory, cv_file, rag_memory, rag_chunks_file, rag_emb_file>>
    /\ UNCHANGED <<lookup, clearing, lookup_result>>
    /\ UNCHANGED notcache

\* cache.py:37: self.memory_cache[cv_hash] = data.
CvSetMemory ==
    /\ wcall.op = "set" /\ wcall.at = "memory"
    /\ cv_memory' = [cv_memory EXCEPT ![wcall.key] = Written(wcall.data)]
    /\ wcall' = [wcall EXCEPT !.at = "open"]
    /\ UNCHANGED <<cv_file, rag_memory, rag_chunks_file, rag_emb_file>>
    /\ UNCHANGED lookupvars
    /\ UNCHANGED notcache

\* cache.py:40-41: open(cache_file, 'w').
CvSetOpen ==
    /\ wcall.op = "set" /\ wcall.at = "open"
    /\ cv_file' = [cv_file EXCEPT ![wcall.key] = Truncated]
    /\ wcall' = [wcall EXCEPT !.at = "dump"]
    /\ UNCHANGED <<cv_memory, rag_memory, rag_chunks_file, rag_emb_file>>
    /\ UNCHANGED lookupvars
    /\ UNCHANGED notcache

\* cache.py:42: json.dump(data, f), and the return.
CvSetDump ==
    /\ wcall.op = "set" /\ wcall.at = "dump"
    /\ cv_file' = [cv_file EXCEPT ![wcall.key] = Written(json_dump_dict(wcall.data))]
    /\ wcall' = NoCall
    /\ stored' = [stored EXCEPT !.cv[wcall.key] = wcall.data]
    /\ UNCHANGED <<cv_memory, rag_memory, rag_chunks_file, rag_emb_file>>
    /\ UNCHANGED <<lookup, clearing, lookup_result, cleared>>
    /\ UNCHANGED notcache

\* The write in progress fails or is interrupted at its next step (an
\* OSError of open or of the dump, a cancellation): the exception leaves
\* the call, nothing in cache.py catches it or undoes the steps done.
WriteFails ==
    /\ wcall # NoCall
    /\ wcall' = NoCall
    /\ UNCHANGED <<cv_memory, cv_file, rag_memory, rag_chunks_file, rag_emb_file>>
    /\ UNCHANGED lookupvars
    /\ UNCHANGED notcache

CacheNext ==
    \/ SetRagDataCall \/ SetRagDataMemory \/ SetRagDataOpenChunks
    \/ SetRagDataDumpChunks \/ SetRagDataOpenEmb \/ SetRagDataDumpEmb
    \/ CvSetCall \/ CvSetMemory \/ CvSetOpen \/ CvSetDump
    \/ WriteFails

\* ----------------------------------------------------------- cache lookups

\* The lookup in progress returns or raises.
LookupDone(outcome, v) ==
    /\ lookup_result' = [op |-> lookup.op, key |-> lookup.key,
                         outcome |-> outcome, value |-> v,
                         after_clear |-> lookup.after_clear,
                         stored |-> lookup.stored, at |-> lookup.at]
    /\ lookup' = NoLookup

\* The lookup in progress moves on to its next statement.
LookupGoes(next) ==
    /\ lookup' = [lookup EXCEPT !.at = next]
    /\ lookup_result' = lookup_result

\* CVCache.get is called (cache.py:18).
GetCall ==
    /\ lookup = NoLookup
    /\ \E k \in Keys :
          lookup' = [op |-> "get", key |-> k, at |-> "memory",
                     after_clear |-> "cv" \in cleared,
                     stored |-> stored.cv[k],
                     chunks |-> None, data |-> None]
    /\ UNCHANGED <<cv_memory, cv_file, rag_memory, rag_chunks_file, rag_emb_file,
                   wcall, clearing, lookup_result, cleared, stored>>
    /\ UNCHANGED notcache

\* cache.py:21-22: the entry in memory is returned.
GetMemory ==
    /\ lookup.op = "get" /\ lookup.at = "memory"
    /\ IF cv_memory[lookup.key] # Absent
       THEN LookupDone("value", cv_memory[lookup.key].content)
       ELSE LookupGoes("exists")
    /\ UNCHANGED <<cv_memory, cv_file, rag_memory, rag_chunks_file, rag_emb_file,
                   wcall, clearing, cleared, stored>>
    /\ UNCHANGED notcache

\* cache.py:25-26 and 32: cache_file.exists(), None without the file.
GetExists ==
    /\ lookup.op = "get" /\ lookup.at = "exists"
    /\ IF cv_file[lookup.key] # Absent
       THEN LookupGoes("load")
       ELSE LookupDone("none", None)
    /\ UNCHANGED <<cv_memory, cv_file, rag_memory, rag_chunks_file, rag_emb_file,
                   wcall, clearing, cleared, stored>>
    /\ UNCHANGED notcache

\* cache.py:27-28: open(cache_file, 'r') and json.load(f).  Without the
\* file open raises FileNotFoundError, on an empty file json.load raises
\* JSONDecodeError; nothing in get catches either.
GetLoad ==
    /\ lookup.op = "get" /\ lookup.at = "load"
    /\ IF cv_file[lookup.key].state = "written"
       THEN /\ lookup' = [lookup EXCEPT !.at = "install",
                                        !.data = json_load_dict(cv_file[lookup.key].content)]
            /\ lookup_result' = lookup_result
       ELSE LookupDone("raised", None)
    /\ UNCHANGED <<cv_memory, cv_file, rag_memory, rag_chunks_file, rag_emb_file,
                   wcall, clearing, cleared, stored>>
    /\ UNCHANGED notcache

\* cache.py:29-30: self.memory_cache[cv_hash] = data; return data.
GetInstall ==
    /\ lookup.op = "get" /\ lookup.at = "install"
    /\ cv_memory' = [cv_memory EXCEPT ![lookup.key] = Written(lookup.data)]
    /\ LookupDone("value", lookup.data)
    /\ UNCHANGED <<cv_file, rag_memory, rag_chunks_file, rag_emb_file,
                   wcall, clearing, cleared, stored>>
    /\ UNCHANGED notcache

\* RAGCache.get_rag_data is called (cache.py:62).
GetRagCall ==
    /\ lookup = NoLookup
    /\ \E k \in Keys :
          lookup' = [op |-> "get_rag_data", key |-> k, at |-> "memory",
                     after_clear |-> "rag" \in cleared,
                     stored |-> stored.rag[k],
                     chunks |-> None, data |-> None]
    /\ UNCHANGED <<cv_memory, cv_file, rag_memory, rag_chunks_file, rag_emb_file,
                   wcall, clearing, lookup_result, cleared, stored>>
    /\ UNCHANGED notcache

\* cache.py:70-71.
GetRagMemory ==
    /\ lookup.op = "get_rag_data" /\ lookup.at = "memory"
    /\ IF rag_memory[lookup.key] # Absent
       THEN LookupDone("value", rag_memory[lookup.key].content)
       ELSE LookupGoes("exists")
    /\ UNCHANGED <<cv_memory, cv_file, rag_memory, rag_chunks_file, rag_emb_file,
                   wcall, clearing, cleared, stored>>
    /\ UNCHANGED notcache

\* cache.py:74-77 and 95: both files exist, or None.
GetRagExists ==
    /\ lookup.op = "get_rag_data" /\ lookup.at = "exists"
    /\ IF rag_chunks_file[lookup.key] # Absent /\ rag_emb_file[lookup.key] # Absent
       THEN LookupGoes("load_chunks")
       ELSE LookupDone("none", None)
    /\ UNCHANGED <<cv_memory, cv_file, rag_memory, rag_chunks_file, rag_emb_file,
                   wcall, clearing, cleared, stored>>
    /\ UNCHANGED notcache

\* cache.py:79-80: open(chunks_file, 'r') and json.load(f).
GetRagLoadChunks ==
    /\ lookup.op = "get_rag_data" /\ lookup.at = "load_chunks"
    /\ IF rag_chunks_file[lookup.key].state = "written"
       THEN /\ lookup' = [lookup EXCEPT !.at = "load_emb",
                                        !.chunks =
                                  json_load_list(rag_chunks_file[lookup.key].content)]
            /\ lookup_result' = lookup_result
       ELSE LookupDone("raised", None)
    /\ UNCHANGED <<cv_memory, cv_file, rag_memory, rag_chunks_file, rag_emb_file,
                   wcall, clearing, cleared, stored>>
    /\ UNCHANGED notcache

\* cache.py:83-84: open(embeddings_file, 'rb') and pickle.load(f), which
\* raises EOFError on an empty file.
GetRagLoadEmb ==
    /\ lookup.op = "get_rag_data" /\ lookup.at = "load_emb"
    /\ IF rag_emb_file[lookup.key].state = "written"
       THEN /\ lookup' = [lookup EXCEPT !.at = "install",
                                        !.data = pickle_load(rag_emb_file[lookup.key].content)]
            /\ lookup_result' = lookup_result
       ELSE LookupDone("raised", None)
    /\ UNCHANGED <<cv_memory, cv_file, rag_memory, rag_chunks_file, rag_emb_file,
                   wcall, clearing, cleared, stored>>
    /\ UNCHANGED notcache

\* cache.py:86-93: the dict is built from what was loaded, stored in
\* memory and returned, with no check of the two lengths.
GetRagInstall ==
    /\ lookup.op = "get_rag_data" /\ lookup.at = "install"
    /\ rag_memory' = [rag_memory EXCEPT
                         ![lookup.key] = Written(RagEntry(lookup.chunks, lookup.data))]
    /\ LookupDone("value", RagEntry(lookup.chunks, lookup.data))
    /\ UNCHANGED <<cv_memory, cv_file, rag_chunks_file, rag_emb_file,
                   wcall, clearing, cleared, stored>>
    /\ UNCHANGED notcache

\* ------------------------------------------------------------- cache clear

\* The keys that have a file in f.
FilesIn(f) == {k \in Keys : f[k] # Absent}

\* CVCache.clear (c = "cv") or RAGCache.clear (c = "rag") is called
\* (cache.py:44, 125).
ClearCall(c) ==
    /\ clearing = NoClear
    /\ clearing' = [cache |-> c, at |-> "memory", pending |-> {}]
    /\ stored' = [stored EXCEPT ![c] = [k \in Keys |-> None]]
    /\ UNCHANGED <<cv_memory, cv_file, rag_memory, rag_chunks_file, rag_emb_file,
                   wcall, lookup, lookup_result, cleared>>
    /\ UNCHANGED notcache

\* cache.py:46: self.memory_cache.clear().
ClearMemory ==
    /\ clearing.cache # "none" /\ clearing.at = "memory"
    /\ IF clearing.cache = "cv"
       THEN cv_memory' = [k \in Keys |-> Absent] /\ rag_memory' = rag_memory
       ELSE rag_memory' = [k \in Keys |-> Absent] /\ cv_memory' = cv_memory
    /\ clearing' = [clearing EXCEPT !.at = "glob"]
    /\ UNCHANGED <<cv_file, rag_chunks_file, rag_emb_file,
                   wcall, lookup, lookup_result, cleared, stored>>
    /\ UNCHANGED notcache

\* cache.py:47: self.cache_dir.glob("*.json") lists the directory.
ClearGlob ==
    /\ clearing.cache # "none" /\ clearing.at = "glob"
    /\ clearing' = [clearing EXCEPT
                       !.at = "unlink",
                       !.pending = IF clearing.cache = "cv" THEN FilesIn(cv_file)
                                   ELSE FilesIn(rag_chunks_file)]
    /\ UNCHANGED <<cv_memory, cv_file, rag_memory, rag_chunks_file, rag_emb_file,
                   wcall, lookup, lookup_result, cleared, stored>>
    /\ UNCHANGED notcache

\* cache.py:48: cache_file.unlink(), one file of the listing.
ClearUnlink ==
    /\ clearing.cache # "none" /\ clearing.at = "unlink"
    /\ \E k \in clearing.pending :
          /\ IF clearing.cache = "cv"
             THEN /\ cv_file' = [cv_file EXCEPT ![k] = Absent]
                  /\ rag_chunks_file' = rag_chunks_file
             ELSE /\ rag_chunks_file' = [rag_chunks_file EXCEPT ![k] = Absent]
                  /\ cv_file' = cv_file
          /\ clearing' = [clearing EXCEPT !.pending = @ \ {k}]
    /\ UNCHANGED <<cv_memory, rag_memory, rag_emb_file,
                   wcall, lookup, lookup_result, cleared, stored>>
    /\ UNCHANGED notcache

\* cache.py:128: self.embeddings_dir.glob("*.pkl"), after super().clear().
ClearGlobEmb ==
    /\ clearing.cache = "rag" /\ clearing.at = "unlink" /\ clearing.pending = {}
    /\ clearing' = [clearing EXCEPT !.at = "unlink_emb",
                                    !.pending = FilesIn(rag_emb_file)]
    /\ UNCHANGED <<cv_memory, cv_file, rag_memory, rag_chunks_file, rag_emb_file,
                   wcall, lookup, lookup_result, cleared, stored>>
    /\ UNCHANGED notcache

\* cache.py:129: emb_file.unlink().
ClearUnlinkEmb ==
    /\ clearing.cache = "rag" /\ clearing.at = "unlink_emb"
    /\ \E k \in clearing.pending :
          /\ rag_emb_file' = [rag_emb_file EXCEPT ![k] = Absent]
          /\ clearing' = [clearing EXCEPT !.pending = @ \ {k}]
    /\ UNCHANGED <<cv_memory, cv_file, rag_memory, rag_chunks_file,
                   wcall, lookup, lookup_result, cleared, stored>>
    /\ UNCHANGED notcache

\* clear returns: the last file of the last listing is unlinked.
ClearReturn ==
    /\ clearing.cache # "none" /\ clearing.pending = {}
    /\ \/ clearing.cache = "cv" /\ clearing.at = "unlink"
       \/ clearing.cache = "rag" /\ clearing.at = "unlink_emb"
    /\ cleared' = cleared \cup {clearing.cache}
    /\ clearing' = NoClear
    /\ UNCHANGED <<cv_memory, cv_file, rag_memory, rag_chunks_file, rag_emb_file,
                   wcall, lookup, lookup_result, stored>>
    /\ UNCHANGED notcache

\* No call on a cache is in progress.
CacheQuiet == wcall = NoCall /\ lookup = NoLookup /\ clearing = NoClear

\* The process ends and a new one starts: CVCache.__init__ and
\* RAGCache.__init__ (cache.py:9-12, 57-60) begin with an empty
\* memory_cache over the directories as they are.
Restart ==
    /\ CacheQuiet
    /\ cv_memory' = [k \in Keys |-> Absent]
    /\ rag_memory' = [k \in Keys |-> Absent]
    /\ UNCHANGED <<cv_file, rag_chunks_file, rag_emb_file, wcall, lookupvars>>
    /\ UNCHANGED notcache

\* ------------------------------------- lookups concurrent with a clear

\* The data each key was written with before the lookups and the clear.
CvDataOf(k) ==
    IF k = "h1" THEN [parsed |-> <<"{", "\"", "s", "\"", "}">>, clean_text |-> <<"a", "\n", "b">>]
    ELSE [parsed |-> <<"{", "}">>, clean_text |-> <<"b", "\\">>]

RagDataOf(k) ==
    IF k = "h1" THEN RagEntry(<<PlainChunk>>, << <<1, 0>> >>)
    ELSE RagEntry(<<PlainChunk, QuotedChunk>>, << <<1, 0>>, <<0, 1>> >>)

\* Both caches hold every key on disk, written whole; the memory of each is
\* as the writes left it, or empty after a restart.
LookupInit ==
    /\ cv_file = [k \in Keys |-> Written(json_dump_dict(CvDataOf(k)))]
    /\ cv_memory \in {[k \in Keys |-> Absent], [k \in Keys |-> Written(CvDataOf(k))]}
    /\ rag_chunks_file = [k \in Keys |-> Written(json_dump_list(RagDataOf(k).chunks))]
    /\ rag_emb_file = [k \in Keys |-> Written(pickle_dump(RagDataOf(k).embeddings))]
    /\ rag_memory \in {[k \in Keys |-> Absent], [k \in Keys |-> Written(RagDataOf(k))]}
    /\ wcall = NoCall
    /\ lookup = NoLookup
    /\ clearing = NoClear
    /\ lookup_result = NoResult
    /\ cleared = {}
    /\ stored = [cv |-> [k \in Keys |-> CvDataOf(k)], rag |-> [k \in Keys |-> RagDataOf(k)]]
    /\ legacy_run = NoRun
    /\ rank_call = NoRank

\* One lookup and one clear at a time, their steps in any order.
LookupNext ==
    \/ GetCall \/ GetMemory \/ GetExists \/ GetLoad \/ GetInstall
    \/ GetRagCall \/ GetRagMemory \/ GetRagExists \/ GetRagLoadChunks
    \/ GetRagLoadEmb \/ GetRagInstall
    \/ \E c \in {"cv", "rag"} : ClearCall(c)
    \/ ClearMemory \/ ClearGlob \/ ClearUnlink \/ ClearGlobEmb
    \/ ClearUnlinkEmb \/ ClearReturn

\* ------------------------------------------ RAGCache, one call at a time

SetRagDataWhenQuiet == CacheQuiet /\ SetRagDataCall

GetRagDataWhenQuiet == CacheQuiet /\ GetRagCall

ClearRagWhenQuiet == CacheQuiet /\ ClearCall("rag")

\* RAGCache used by one thread: writes that may fail, lookups, clears and
\* restarts, one after the other.
RagCacheNext ==
    \/ SetRagDataWhenQuiet \/ SetRagDataMemory \/ SetRagDataOpenChunks
    \/ SetRagDataDumpChunks \/ SetRagDataOpenEmb \/ SetRagDataDumpEmb
    \/ WriteFails
    \/ GetRagDataWhenQuiet \/ GetRagMemory \/ GetRagExists \/ GetRagLoadChunks
    \/ GetRagLoadEmb \/ GetRagInstall
    \/ ClearRagWhenQuiet \/ ClearMemory \/ ClearGlob \/ ClearUnlink
    \/ ClearGlobEmb \/ ClearUnlinkEmb \/ ClearReturn
    \/ Restart

\* -------------------------------- CVCache and RAGCache, one call at a time

SetWhenQuiet == CacheQuiet /\ CvSetCall

GetWhenQuiet == CacheQuiet /\ GetCall

\* Both caches used by one thread: writes that return, lookups and
\* restarts, one after the other.
RoundTripNext ==
    \/ SetRagDataWhenQuiet \/ SetRagDataMemory \/ SetRagDataOpenChunks
    \/ SetRagDataDumpChunks \/ SetRagDataOpenEmb \/ SetRagDataDumpEmb
    \/ SetWhenQuiet \/ CvSetMemory \/ CvSetOpen \/ CvSetDump
    \/ GetRagDataWhenQuiet \/ GetRagMemory \/ GetRagExists \/ GetRagLoadChunks
    \/ GetRagLoadEmb \/ GetRagInstall
    \/ GetWhenQuiet \/ GetMemory \/ GetExists \/ GetLoad \/ GetInstall
    \/ Restart

\* ------------------------------------------------- run_pipeline_rag steps

PipeInit ==
    /\ rag_cache = <<>>
    /\ pc = [p \in Procs |-> "idle"]
    /\ args = [p \in Procs |-> NoArgs]
    /\ branch = [p \in Procs |-> "none"]
    /\ cv_data = [p \in Procs |-> None]
    /\ work = [p \in Procs |-> NoWork]
    /\ jd_call = [p \in Procs |-> "none"]
    /\ jd_embedding = [p \in Procs |-> <<0, 0>>]
    /\ retrieved = [p \in Procs |-> None]
    /\ result = [p \in Procs |-> None]
    /\ error = [p \in Procs |-> NoError]
    /\ served = {}
    /\ fresh = {}

Running(p) == pc[p] \notin {"idle", "returned", "raised"}

\* run_pipeline_rag(cv_path, jd_text, top_k) is called (pipeline.py:128);
\* the texts are the cleaned ones of lines 147-149.
Start(p) ==
    /\ ~Running(p)
    /\ \E cv \in CvTexts : \E jd \in JdTexts : \E k \in PipeTopKs :
          args' = [args EXCEPT ![p] = [cv |-> cv, jd |-> jd, top_k |-> k]]
    /\ pc' = [pc EXCEPT ![p] = "get_cached_cv"]
    /\ branch' = [branch EXCEPT ![p] = "none"]
    /\ cv_data' = [cv_data EXCEPT ![p] = None]
    /\ work' = [work EXCEPT ![p] = NoWork]
    /\ jd_call' = [jd_call EXCEPT ![p] = "none"]
    /\ jd_embedding' = [jd_embedding EXCEPT ![p] = <<0, 0>>]
    /\ retrieved' = [retrieved EXCEPT ![p] = None]
    /\ result' = [result EXCEPT ![p] = None]
    /\ error' = [error EXCEPT ![p] = NoError]
    /\ UNCHANGED <<rag_cache, served, fresh>>
    /\ UNCHANGED notpipe

\* pipeline.py:152-159: the lookup and the branch on it.
GetCachedCv(p) ==
    /\ pc[p] = "get_cached_cv"
    /\ LET cached == get_cached_cv(rag_cache, args[p].cv)
       IN  IF Truthy(cached)
           THEN /\ cv_data' = [cv_data EXCEPT ![p] = cached]
                /\ branch' = [branch EXCEPT ![p] = "hit"]
                /\ pc' = [pc EXCEPT ![p] = "retrieve_for_jd"]
           ELSE /\ cv_data' = cv_data
                /\ branch' = [branch EXCEPT ![p] = "miss"]
                /\ pc' = [pc EXCEPT ![p] = "embed_cv"]
    /\ UNCHANGED <<rag_cache, args, work, jd_call, jd_embedding, retrieved,
                   result, error, served, fresh>>
    /\ UNCHANGED notpipe

\* rag_embedder.py:49-59: embed_cv's own check of the cache, then the
\* chunking and the call of embed_chunks.
EmbedCvEnter(p) ==
    /\ pc[p] = "embed_cv"
    /\ IF get_cv_hash(args[p].cv) \in DOMAIN rag_cache
       THEN /\ cv_data' = [cv_data EXCEPT ![p] = rag_cache[get_cv_hash(args[p].cv)]]
            /\ work' = work
            /\ branch' = [branch EXCEPT ![p] = "hit_in_embed_cv"]
            /\ pc' = [pc EXCEPT ![p] = "retrieve_for_jd"]
       ELSE /\ cv_data' = cv_data
            /\ work' = [work EXCEPT ![p] =
                           [chunks |-> chunk_cv(args[p].cv, DefaultMaxChars),
                            embeddings |-> <<>>]]
            /\ branch' = branch
            /\ pc' = [pc EXCEPT ![p] = "embed_chunks"]
    /\ UNCHANGED <<rag_cache, args, jd_call, jd_embedding, retrieved,
                   result, error, served, fresh>>
    /\ UNCHANGED notpipe

\* The call of the Vector Provider for the next chunk is in flight.
CvEmbedInFlight(p) ==
    pc[p] = "embed_chunks" /\ Len(work[p].embeddings) < Len(work[p].chunks)

\* rag.py:136-141: the provider answers for the next chunk.
EmbedChunkReturns(p) ==
    /\ CvEmbedInFlight(p)
    /\ work' = [work EXCEPT ![p].embeddings =
                   Append(@, Embedding(work[p].chunks[Len(@) + 1]))]
    /\ UNCHANGED <<rag_cache, pc, args, branch, cv_data, jd_call, jd_embedding,
                   retrieved, result, error, served, fresh>>
    /\ UNCHANGED notpipe

\* rag.py:137: the provider raises for the next chunk; the exception
\* leaves embed_chunks, embed_cv and run_pipeline_rag.
EmbedChunkRaises(p) ==
    /\ CvEmbedInFlight(p)
    /\ rag_cache' = CacheAfterProviderError(rag_cache, args[p].cv,
                                            work[p].chunks, work[p].embeddings)
    /\ error' = [error EXCEPT ![p] =
                    [at |-> "embed_chunks", chunk |-> Len(work[p].embeddings) + 1]]
    /\ pc' = [pc EXCEPT ![p] = "raised"]
    /\ UNCHANGED <<args, branch, cv_data, work, jd_call, jd_embedding,
                   retrieved, result, served, fresh>>
    /\ UNCHANGED notpipe

\* rag.py:143 and rag_embedder.py:62-72: every chunk is embedded; the entry
\* is built, stored and returned to run_pipeline_rag.
EmbedCvStore(p) ==
    /\ pc[p] = "embed_chunks"
    /\ Len(work[p].embeddings) = Len(work[p].chunks)
    /\ LET e == CvEntry(args[p].cv, work[p].chunks, work[p].embeddings)
       IN  /\ rag_cache' = StoreInCache(rag_cache, e.cv_hash, e)
           /\ cv_data' = [cv_data EXCEPT ![p] = e]
    /\ pc' = [pc EXCEPT ![p] = "retrieve_for_jd"]
    /\ fresh' = fresh \cup {args[p].cv}
    /\ UNCHANGED <<args, branch, work, jd_call, jd_embedding, retrieved,
                   result, error, served>>
    /\ UNCHANGED notpipe

\* A concurrent variant of JdEmbedIssuable: the query is embedded while the
\* chunks still are.
JdEmbedIssuable_concurrent(p) == pc[p] \in {"embed_chunks", "retrieve_for_jd"}

\* When embed_text(jd_text) can be called: in retrieve_for_jd, which
\* run_pipeline_rag calls with cv_data, after get_cached_cv or embed_cv has
\* returned it (pipeline.py:162, rag_embedder.py:107).
JdEmbedIssuable(p) == pc[p] = "retrieve_for_jd"

\* rag_embedder.py:107: embed_text(jd_text) calls the Vector Provider.
IssueJdEmbed(p) ==
    /\ JdEmbedIssuable(p)
    /\ jd_call[p] = "none"
    /\ jd_call' = [jd_call EXCEPT ![p] = "in_flight"]
    /\ UNCHANGED <<rag_cache, pc, args, branch, cv_data, work, jd_embedding,
                   retrieved, result, error, served, fresh>>
    /\ UNCHANGED notpipe

\* rag.py:157-161: the provider answers for the query.
JdEmbedReturns(p) ==
    /\ jd_call[p] = "in_flight"
    /\ jd_call' = [jd_call EXCEPT ![p] = "ready"]
    /\ jd_embedding' = [jd_embedding EXCEPT ![p] = Embedding(args[p].jd)]
    /\ UNCHANGED <<rag_cache, pc, args, branch, cv_data, work, retrieved,
                   result, error, served, fresh>>
    /\ UNCHANGED notpipe

\* rag.py:157: the provider raises for the query.
JdEmbedRaises(p) ==
    /\ jd_call[p] = "in_flight"
    /\ jd_call' = [jd_call EXCEPT ![p] = "none"]
    /\ error' = [error EXCEPT ![p] = [at |-> "embed_text", chunk |-> 0]]
    /\ pc' = [pc EXCEPT ![p] = "raised"]
    /\ UNCHANGED <<rag_cache, args, branch, cv_data, work, jd_embedding,
                   retrieved, result, served, fresh>>
    /\ UNCHANGED notpipe

\* A slip of retrieve_for_jd: the retrieval does not wait for the answer of
\* the provider and runs on the query embedding as it is.
RetrieveForJd_early(p) ==
    /\ pc[p] = "retrieve_for_jd"
    /\ \E order \in ArgSorts(Scores(cv_data[p].embeddings, jd_embedding[p])) :
          LET r == retrieve_relevant_chunks(cv_data[p].chunks, cv_data[p].embeddings,
                                            jd_embedding[p], args[p].top_k, order)
          IN  retrieved' = [retrieved EXCEPT ![p] =
                               [relevant_chunks |-> r[2], chunk_scores |-> r[3]]]
    /\ pc' = [pc EXCEPT ![p] = "score"]
    /\ UNCHANGED <<rag_cache, args, branch, cv_data, work, jd_call, jd_embedding,
                   result, error, served, fresh>>
    /\ UNCHANGED notpipe

\* A slip of retrieve_for_jd: the entry it was handed, which is the stored
\* one, is cut down to the chunks it retrieved.
RetrieveForJd_trims(p) ==
    /\ pc[p] = "retrieve_for_jd"
    /\ jd_call[p] = "ready"
    /\ \E order \in ArgSorts(Scores(cv_data[p].embeddings, jd_embedding[p])) :
          LET r == retrieve_relevant_chunks(cv_data[p].chunks, cv_data[p].embeddings,
                                            jd_embedding[p], args[p].top_k, order)
              k == get_cv_hash(args[p].cv)
          IN  /\ retrieved' = [retrieved EXCEPT ![p] =
                                  [relevant_chunks |-> r[2], chunk_scores |-> r[3]]]
              /\ rag_cache' = IF k \in DOMAIN rag_cache
                              THEN [rag_cache EXCEPT ![k].chunks = r[2],
                                                     ![k].num_chunks = Len(r[2])]
                              ELSE rag_cache
    /\ pc' = [pc EXCEPT ![p] = "score"]
    /\ UNCHANGED <<args, branch, cv_data, work, jd_call, jd_embedding,
                   result, error, served, fresh>>
    /\ UNCHANGED notpipe

\* rag_embedder.py:110-117: the retrieval, with both embeddings at hand.
RetrieveForJd(p) ==
    /\ pc[p] = "retrieve_for_jd"
    /\ jd_call[p] = "ready"
    /\ \E order \in ArgSorts(Scores(cv_data[p].embeddings, jd_embedding[p])) :
          LET r == retrieve_relevant_chunks(cv_data[p].chunks, cv_data[p].embeddings,
                                            jd_embedding[p], args[p].top_k, order)
          IN  retrieved' = [retrieved EXCEPT ![p] =
                               [relevant_chunks |-> r[2], chunk_scores |-> r[3]]]
    /\ pc' = [pc EXCEPT ![p] = "score"]
    /\ UNCHANGED <<rag_cache, args, branch, cv_data, work, jd_call, jd_embedding,
                   result, error, served, fresh>>
    /\ UNCHANGED notpipe

\* A slip of run_pipeline_rag: the overall score is taken from the first
\* top_k chunk embeddings only.
ScoreAndReturn_first_k(p) ==
    /\ pc[p] = "score"
    /\ result' = [result EXCEPT ![p] =
                     [relevant_cv_chunks |-> retrieved[p].relevant_chunks,
                      chunk_scores |-> retrieved[p].chunk_scores,
                      similarity_score |->
                          embedding_score_rag(
                              SubSeq(cv_data[p].embeddings, 1,
                                     Min(args[p].top_k, Len(cv_data[p].embeddings))),
                              jd_embedding[p], "max", <<>>)]]
    /\ pc' = [pc EXCEPT ![p] = "returned"]
    /\ served' = served \cup {<<args[p].cv, args[p].jd>>}
    /\ UNCHANGED <<rag_cache, args, branch, cv_data, work, jd_call, jd_embedding,
                   retrieved, error, fresh>>
    /\ UNCHANGED notpipe

\* pipeline.py:169-199: the overall score from every chunk embedding, then
\* the parsing and the scoring by the language model, which are outside
\* this model, and the return.
ScoreAndReturn(p) ==
    /\ pc[p] = "score"
    /\ result' = [result EXCEPT ![p] =
                     [relevant_cv_chunks |-> retrieved[p].relevant_chunks,
                      chunk_scores |-> retrieved[p].chunk_scores,
                      similarity_score |->
                          embedding_score_rag(cv_data[p].embeddings,
                                              jd_embedding[p], "max", <<>>)]]
    /\ pc' = [pc EXCEPT ![p] = "returned"]
    /\ served' = served \cup {<<args[p].cv, args[p].jd>>}
    /\ UNCHANGED <<rag_cache, args, branch, cv_data, work, jd_call, jd_embedding,
                   retrieved, error, fresh>>
    /\ UNCHANGED notpipe

\* rag_embedder.py:149-151: RAGEmbedder.clear_cache.
ClearRagCache ==
    /\ rag_cache' = <<>>
    /\ served' = {}
    /\ fresh' = {}
    /\ UNCHANGED <<pc, args, branch, cv_data, work, jd_call, jd_embedding,
                   retrieved, result, error>>
    /\ UNCHANGED notpipe

\* rag_embedder.py:157-171: RAGEmbedder.remove_from_cache.
RemoveFromCache ==
    /\ \E t \in CvTexts :
          /\ rag_cache' = IF get_cv_hash(t) \in DOMAIN rag_cache
                          THEN DictDel(rag_cache, get_cv_hash(t)) ELSE rag_cache
          /\ served' = {s \in served : s[1] # t}
          /\ fresh' = fresh \ {t}
    /\ UNCHANGED <<pc, args, branch, cv_data, work, jd_call, jd_embedding,
                   retrieved, result, error>>
    /\ UNCHANGED notpipe

\* pipeline.py:123-125: clear_cache(), the action behind DELETE /cache
\* (api/routes/cache.py:34-42): _cache.clear(), which is CVCache.clear
\* (cache.py:44-48) on the cache of run_pipeline.  _rag_embedder is not
\* touched.
clear_cache ==
    /\ cv_memory' = [k \in Keys |-> Absent]
    /\ cv_file' = [k \in Keys |-> Absent]
    /\ fresh' = {}
    /\ legacy_run' = [legacy_run EXCEPT !.done = [k \in Keys |-> None]]
    /\ UNCHANGED rank_call
    /\ UNCHANGED <<rag_memory, rag_chunks_file, rag_emb_file, wcall>>
    /\ stored' = [stored EXCEPT !.cv = [k \in Keys |-> None]]
    /\ UNCHANGED <<lookup, clearing, lookup_result, cleared>>
    /\ UNCHANGED <<rag_cache, pc, args, branch, cv_data, work, jd_call,
                   jd_embedding, retrieved, result, error, served>>
    /\ UNCHANGED <<ragvars, segvars>>

\* The steps of the invocation p.
Step(p) ==
    \/ Start(p) \/ GetCachedCv(p) \/ EmbedCvEnter(p)
    \/ EmbedChunkReturns(p) \/ EmbedChunkRaises(p) \/ EmbedCvStore(p)
    \/ IssueJdEmbed(p) \/ JdEmbedReturns(p) \/ JdEmbedRaises(p)
    \/ RetrieveForJd(p) \/ ScoreAndReturn(p)

\* No invocation is in progress.
Quiescent == \A p \in Procs : ~Running(p)

\* The blocking program is one thread: a cache operation runs between two
\* invocations, never inside one.
ClearBetweenRuns == Quiescent /\ ClearRagCache

RemoveBetweenRuns == Quiescent /\ RemoveFromCache

ClearCacheBetweenRuns == Quiescent /\ clear_cache

\* ------------------------------------------------------------ run_pipeline

\* cache.py:18-32, CVCache.get as one call: the outcome, the value and the
\* memory_cache it leaves.
cv_get(mem, file, k) ==
    IF mem[k] # Absent
    THEN [outcome |-> "value", value |-> mem[k].content, memory |-> mem]
    ELSE IF file[k] = Absent
         THEN [outcome |-> "none", value |-> None, memory |-> mem]
         ELSE IF file[k].state = "written"
              THEN LET data == json_load_dict(file[k].content)
                   IN  [outcome |-> "value", value |-> data,
                        memory |-> [mem EXCEPT ![k] = Written(data)]]
              ELSE [outcome |-> "raised", value |-> None, memory |-> mem]

\* The JSON texts parse_cv may return for a CV: the language model need not
\* answer twice alike.
ParseOutputs == {d.parsed : d \in CvPayloads}

\* A slip of run_pipeline: what the cache returned is never used.
CachedParsed_never(cached) == FALSE

\* pipeline.py:46 and 57: cached_cv and "parsed" in cached_cv.
CachedParsed(cached) == Truthy(cached) /\ "parsed" \in DOMAIN cached

LegacyRunning == legacy_run.pc \notin {"idle", "returned", "raised"}

\* run_pipeline(cv_path, jd_text) is called (pipeline.py:21); k is
\* _cache.get_hash(cv_clean) of line 36.
RunPipelineCall ==
    /\ ~LegacyRunning
    /\ CacheQuiet
    /\ \E k \in Keys :
          legacy_run' = [pc |-> "get", key |-> k, cached |-> None, cv_json |-> None,
                         parsed |-> FALSE, wrote |-> FALSE,
                         first |-> legacy_run.done[k], done |-> legacy_run.done]
    /\ UNCHANGED <<cachevars, ragvars, segvars, pipevars, rank_call>>

\* pipeline.py:37: cached_cv = _cache.get(cv_hash).
RunPipelineGet ==
    /\ legacy_run.pc = "get"
    /\ LET got == cv_get(cv_memory, cv_file, legacy_run.key)
       IN  /\ cv_memory' = got.memory
           /\ legacy_run' =
                  IF got.outcome = "raised" THEN [legacy_run EXCEPT !.pc = "raised"]
                  ELSE [legacy_run EXCEPT !.pc = "parse", !.cached = got.value]
    /\ UNCHANGED <<cv_file, rag_memory, rag_chunks_file, rag_emb_file, wcall, lookupvars>>
    /\ UNCHANGED <<ragvars, segvars, pipevars, rank_call>>

\* pipeline.py:44-59: the parsed CV is taken from the cache, or parse_cv is
\* submitted and returns.
RunPipelineParse ==
    /\ legacy_run.pc = "parse"
    /\ IF CachedParsed(legacy_run.cached)
       THEN legacy_run' = [legacy_run EXCEPT !.pc = "store",
                                             !.cv_json = legacy_run.cached.parsed]
       ELSE \E out \in ParseOutputs :
               legacy_run' = [legacy_run EXCEPT !.pc = "store", !.cv_json = out,
                                                !.parsed = TRUE]
    /\ UNCHANGED <<cachevars, ragvars, segvars, pipevars, rank_call>>

\* pipeline.py:57-59: a future's result() raises what parse_cv, parse_jd or
\* embedding_score raised; the exception leaves run_pipeline.
RunPipelineWorkerRaises ==
    /\ legacy_run.pc = "parse"
    /\ legacy_run' = [legacy_run EXCEPT !.pc = "raised"]
    /\ UNCHANGED <<cachevars, ragvars, segvars, pipevars, rank_call>>

\* pipeline.py:62-70: on a miss the entry is stored by _cache.set
\* (cache.py:34-42); then score_cv and the return.
RunPipelineStore ==
    /\ legacy_run.pc = "store"
    /\ LET k == legacy_run.key
           data == [parsed |-> legacy_run.cv_json,
                    clean_text |-> CvDataOf(k).clean_text]
       IN  IF ~Truthy(legacy_run.cached)
           THEN /\ cv_memory' = [cv_memory EXCEPT ![k] = Written(data)]
                /\ cv_file' = [cv_file EXCEPT ![k] = Written(json_dump_dict(data))]
                /\ stored' = [stored EXCEPT !.cv[k] = data]
                /\ cleared' = cleared \ {"cv"}
                /\ legacy_run' = [legacy_run EXCEPT !.pc = "returned", !.wrote = TRUE,
                                                    !.done[k] = data]
           ELSE /\ UNCHANGED <<cv_memory, cv_file, stored, cleared>>
                /\ legacy_run' = [legacy_run EXCEPT !.pc = "returned"]
    /\ UNCHANGED <<rag_memory, rag_chunks_file, rag_emb_file, wcall,
                   lookup, clearing, lookup_result>>
    /\ UNCHANGED <<ragvars, segvars, pipevars, rank_call>>

\* test_performance.py:21: clear_cache() between two runs.
ClearCacheBetweenLegacyRuns == ~LegacyRunning /\ clear_cache

\* The process restarts between two runs.
RestartBetweenLegacyRuns == ~LegacyRunning /\ Restart

\* run_pipeline, one invocation after the other, with clear_cache and
\* restarts in between.
RunPipelineNext ==
    \/ RunPipelineCall \/ RunPipelineGet \/ RunPipelineParse
    \/ RunPipelineWorkerRaises \/ RunPipelineStore
    \/ ClearCacheBetweenLegacyRuns \/ RestartBetweenLegacyRuns

\* ---------------------------------------------------------- POST /rank

\* The names of the uploaded files: two PDFs and one that is not.
FileNames == {"a.pdf", "b.pdf", "c.txt"}

IsPdf(name) == name \in {"a.pdf", "b.pdf"}

\* The uploads of a request: no file, or up to MaxFiles of them.
FileLists == UNION {[1..n -> FileNames] : n \in 0..MaxFiles}

\* The final_score values the scorer's JSON may carry.
FinalScores == {0, 40, 90}

\* The recommendations the scorer's JSON may carry ('unknown' when it has
\* none, matching.py:125).
Recommendations == {"shortlist", "unknown"}

\* The place of r in a list sorted by score, highest first, after every
\* result that scores at least as much.
RECURSIVE InsertByScore(_, _)
InsertByScore(sorted, r) ==
    IF sorted = <<>> THEN <<r>>
    ELSE IF Head(sorted).score >= r.score
         THEN <<Head(sorted)>> \o InsertByScore(Tail(sorted), r)
         ELSE <<r>> \o sorted

\* matching.py:150: results.sort(key=lambda x: x.score, reverse=True), a
\* stable sort.
RECURSIVE SortByScore(_, _)
SortByScore(sorted, rest) ==
    IF rest = <<>> THEN sorted
    ELSE SortByScore(InsertByScore(sorted, Head(rest)), Tail(rest))

\* matching.py:73-101: the request arrives; no file, or a file that is not
\* a PDF, is answered with status 400.
RankCall ==
    /\ rank_call.pc \in {"idle", "returned", "rejected"}
    /\ \E fs \in FileLists :
          rank_call' =
              IF fs = <<>> \/ \E j \in 1..Len(fs) : ~IsPdf(fs[j])
              THEN [NoRank EXCEPT !.pc = "rejected", !.files = fs]
              ELSE [NoRank EXCEPT !.pc = "create", !.files = fs, !.i = 1]
    /\ UNCHANGED <<ragvars, segvars, cachevars, pipevars, legacy_run>>

\* matching.py:105-108: the upload is written to a temporary file, which
\* stays on disk (delete=False).
RankCreateTmp ==
    /\ rank_call.pc = "create"
    /\ rank_call' = [rank_call EXCEPT !.pc = "pipeline",
                                      !.tmp = @ \cup {rank_call.i},
                                      !.made = @ \cup {rank_call.i}]
    /\ UNCHANGED <<ragvars, segvars, cachevars, pipevars, legacy_run>>

\* matching.py:115-129: the pipeline returns the scorer's JSON, and the
\* result of the file is appended.
RankPipelineReturns ==
    /\ rank_call.pc = "pipeline"
    /\ \E sc \in FinalScores : \E rec \in Recommendations :
          rank_call' = [rank_call EXCEPT
                           !.pc = "cleanup",
                           !.results = Append(@, [file |-> rank_call.i,
                                                  filename |-> rank_call.files[rank_call.i],
                                                  score |-> sc,
                                                  recommendation |-> rec])]
    /\ UNCHANGED <<ragvars, segvars, cachevars, pipevars, legacy_run>>

\* A slip of rank_multiple_cvs: the exception of the pipeline is not
\* caught and ends the request.
RankPipelineRaises_propagates ==
    /\ rank_call.pc = "pipeline"
    /\ rank_call' = [rank_call EXCEPT !.pc = "raised", !.failed = @ \cup {rank_call.i}]
    /\ UNCHANGED <<ragvars, segvars, cachevars, pipevars, legacy_run>>

\* matching.py:131-140: the pipeline, json.loads or the validation of the
\* result raises; the error result of the file is appended.
RankPipelineRaises ==
    /\ rank_call.pc = "pipeline"
    /\ rank_call' = [rank_call EXCEPT
                        !.pc = "cleanup",
                        !.failed = @ \cup {rank_call.i},
                        !.results = Append(@, [file |-> rank_call.i,
                                               filename |-> rank_call.files[rank_call.i],
                                               score |-> 0,
                                               recommendation |-> "error"])]
    /\ UNCHANGED <<ragvars, segvars, cachevars, pipevars, legacy_run>>

\* matching.py:142-145 and the loop of line 103: the temporary file is
\* unlinked and the next file is taken.
RankCleanup ==
    /\ rank_call.pc = "cleanup"
    /\ rank_call' = [rank_call EXCEPT
                        !.tmp = @ \ {rank_call.i},
                        !.i = @ + 1,
                        !.pc = IF rank_call.i = Len(rank_call.files)
                               THEN "sort" ELSE "create"]
    /\ UNCHANGED <<ragvars, segvars, cachevars, pipevars, legacy_run>>

\* matching.py:147-157: the results are sorted and returned.
RankReturn ==
    /\ rank_call.pc = "sort"
    /\ LET sorted == SortByScore(<<>>, rank_call.results)
       IN  rank_call' = [rank_call EXCEPT
                            !.pc = "returned",
                            !.response = [total_cvs |-> Len(sorted),
                                          results |-> sorted]]
    /\ UNCHANGED <<ragvars, segvars, cachevars, pipevars, legacy_run>>

RankNext ==
    \/ RankCall \/ RankCreateTmp \/ RankPipelineReturns \/ RankPipelineRaises
    \/ RankCleanup \/ RankReturn

\* Invocations one after the other, as rank_candidates.py and test_rag.py
\* make them.
Next ==
    \/ \E p \in Procs : Step(p)
    \/ ClearBetweenRuns
    \/ RemoveBetweenRuns
    \/ ClearCacheBetweenRuns

\* ------------------------------------------ run_pipeline_rag, concurrently

\* The threads of concurrent requests, each calling run_pipeline_rag once.
Threads == {"t1", "t2"}

InitConcurrent ==
    /\ rag_cache = <<>>
    /\ pc = [p \in Threads |-> "idle"]
    /\ args = [p \in Threads |-> NoArgs]
    /\ branch = [p \in Threads |-> "none"]
    /\ cv_data = [p \in Threads |-> None]
    /\ work = [p \in Threads |-> NoWork]
    /\ jd_call = [p \in Threads |-> "none"]
    /\ jd_embedding = [p \in Threads |-> <<0, 0>>]
    /\ retrieved = [p \in Threads |-> None]
    /\ result = [p \in Threads |-> None]
    /\ error = [p \in Threads |-> NoError]
    /\ served = {}
    /\ fresh = {}
    /\ RagIdle /\ SegIdle /\ CacheInit

\* The one call of thread p.
FirstStart(p) == pc[p] = "idle" /\ Start(p)

\* The threads share _rag_embedder and take their steps in any order.
NextConcurrent ==
    \E p \in Threads :
        \/ FirstStart(p) \/ GetCachedCv(p) \/ EmbedCvEnter(p)
        \/ EmbedChunkReturns(p) \/ EmbedChunkRaises(p) \/ EmbedCvStore(p)
        \/ IssueJdEmbed(p) \/ JdEmbedReturns(p) \/ JdEmbedRaises(p)
        \/ RetrieveForJd(p) \/ ScoreAndReturn(p)

\* --------------------------------------------------------- specifications

\* run_pipeline_rag and run_pipeline in the one blocking program: an
\* invocation of either starts when no invocation is in progress.
\* Here run_pipeline_rag is called with one job description and top_k = 1.
StartOneJd(p) == Start(p) /\ args'[p].jd = <<"a">> /\ args'[p].top_k = 1

RagPipelineStep ==
    /\ ~LegacyRunning
    /\ \/ \E p \in Procs :
              \/ StartOneJd(p) \/ GetCachedCv(p) \/ EmbedCvEnter(p)
              \/ EmbedChunkReturns(p) \/ EmbedChunkRaises(p) \/ EmbedCvStore(p)
              \/ IssueJdEmbed(p) \/ JdEmbedReturns(p) \/ JdEmbedRaises(p)
              \/ RetrieveForJd(p) \/ ScoreAndReturn(p)
       \/ ClearBetweenRuns
       \/ RemoveBetweenRuns
       \/ ClearCacheBetweenRuns

LegacyPipelineStep == Quiescent /\ RunPipelineNext

BothPipelinesNext == RagPipelineStep \/ LegacyPipelineStep

\* The segmenter on every text and limit within the bounds.
SegNext == ChunkCv \/ ChunkJd

InitSeg == SegInit /\ RagIdle /\ CacheInit /\ PipeInit

SpecSeg == InitSeg /\ [][SegNext]_vars

\* The retriever and the aggregator on every input within the bounds.
RagNext == Retrieve \/ EmbeddingScoreRag \/ GetSimilarityScore

InitRag == RagInit /\ SegIdle /\ CacheInit /\ PipeInit

SpecRag == InitRag /\ [][RagNext]_vars

\* The writes of CVCache and RAGCache, step by step.
InitCache == CacheInit /\ RagIdle /\ SegIdle /\ PipeInit

SpecCache == InitCache /\ [][CacheNext]_vars

\* Lookups of CVCache and RAGCache while a clear runs.
InitLookup == LookupInit /\ RagIdle /\ SegIdle /\ PipeInit

SpecLookup == InitLookup /\ [][LookupNext]_vars

\* RAGCache over writes, failures, lookups, clears and restarts.
SpecRagCache == InitCache /\ [][RagCacheNext]_vars

\* set followed by get, set_rag_data followed by get_rag_data.
SpecRoundTrip == InitCache /\ [][RoundTripNext]_vars

\* POST /rank, one request after the other.
SpecRank == InitCache /\ [][RankNext]_vars

\* run_pipeline over CVCache.
SpecRunPipeline == InitCache /\ [][RunPipelineNext]_vars

\* run_pipeline_rag, one invocation after the other.
Init == PipeInit /\ RagIdle /\ SegIdle /\ CacheInit

Spec == Init /\ [][Next]_vars

\* run_pipeline_rag and run_pipeline, one invocation after the other.
SpecBothPipelines == Init /\ [][BothPipelinesNext]_vars

\* run_pipeline_rag, called once by each of two threads.
SpecConcurrent == InitConcurrent /\ [][NextConcurrent]_vars

\* -------------------------------------------------- properties: segmenter

Chunked == cstage \in {"chunk_cv", "chunk_jd"}

\* The non-blank lines of s, each stripped, in order.
RECURSIVE StripLines(_)
StripLines(ls) ==
    IF ls = <<>> THEN <<>>
    ELSE (IF Strip(Head(ls)) = <<>> THEN <<>> ELSE <<Strip(Head(ls))>>)
         \o StripLines(Tail(ls))

NonBlankLines(s) == StripLines(SplitLines(s))

\* The non-blank lines of the chunks, concatenated in chunk order.
RECURSIVE ChunkLines(_)
ChunkLines(cs) ==
    IF cs = <<>> THEN <<>> ELSE NonBlankLines(Head(cs)) \o ChunkLines(Tail(cs))

\* C7: every chunk chunk_cv and chunk_jd return is at most max_chars long,
\* except a chunk that is one single line of the text, longer than
\* max_chars, emitted whole and alone.
C7_ChunkLength ==
    Chunked =>
        \A i \in 1..Len(out_chunks) :
            \/ Len(out_chunks[i]) <= max_chars
            \/ /\ \A j \in 1..Len(out_chunks[i]) : out_chunks[i][j] # "\n"
               /\ \E l \in 1..Len(NonBlankLines(text)) :
                      NonBlankLines(text)[l] = out_chunks[i]

\* C7's case: a chunk longer than the limit, which is one line of the text,
\* returned next to a chunk within the limit.
C7_Witness ==
    /\ Chunked /\ Len(out_chunks) = 2
    /\ Len(out_chunks[1]) > max_chars
    /\ Len(out_chunks[2]) <= max_chars

\* A header line: a line that is, stripped, one header word of the kind.
HeaderWords == IF kind = "cv" THEN {"S", "E"} ELSE {"R", "D"}

IsHeaderLine(l) == Len(l) = 1 /\ l[1] \in HeaderWords

RECURSIVE WithoutHeaders(_)
WithoutHeaders(ls) ==
    IF ls = <<>> THEN <<>>
    ELSE (IF IsHeaderLine(Head(ls)) THEN <<>> ELSE <<Head(ls)>>)
         \o WithoutHeaders(Tail(ls))

\* a is b with some header lines left out, the order kept.
RECURSIVE DropsHeadersOnly(_, _)
DropsHeadersOnly(a, b) ==
    IF b = <<>> THEN a = <<>>
    ELSE \/ a # <<>> /\ Head(a) = Head(b) /\ DropsHeadersOnly(Tail(a), Tail(b))
         \/ IsHeaderLine(Head(b)) /\ DropsHeadersOnly(a, Tail(b))

BodyOnly(c) ==
    \A l \in 1..Len(NonBlankLines(c)) : ~IsHeaderLine(NonBlankLines(c)[l])

\* C19 as stated: header-based splitting takes precedence over the size
\* limit: also when the whole text is within max_chars, every header line,
\* the first line of the text included, starts a new segment and the
\* chunks hold the bodies only; the SKILLS / EXPERIENCE text is cut at 500
\* into exactly the two bodies.
C19_HeadersSplit ==
    (cstage = "chunk_cv" /\ Len(text) <= max_chars) =>
        /\ \A i \in 1..Len(out_chunks) : BodyOnly(out_chunks[i])
        /\ (text = SkillsExperienceText /\ max_chars = DefaultMaxChars) =>
               out_chunks = << <<"a">>, <<"a", " ", "a">> >>

\* C20: chunk_cv and chunk_jd return for every text and every max_chars,
\* no returned chunk is empty or whitespace-only (each is stripped), and an
\* empty or whitespace-only text gives the empty chunk sequence.
C20_Total ==
    Chunked =>
        /\ \A i \in 1..Len(out_chunks) :
               out_chunks[i] # <<>> /\ Strip(out_chunks[i]) = out_chunks[i]
        /\ (Strip(text) = <<>>) => out_chunks = <<>>

\* C20's case: a text of blank lines only, longer than the limit, so that
\* the line loop runs and flushes blank buffers, chunked into nothing.
C20_Witness ==
    /\ Chunked /\ text = <<" ", "\n", " ">> /\ max_chars = 1
    /\ out_chunks = <<>>

\* ------------------------------------------------- properties: retriever

Retrieved == rstage = "retrieve_relevant_chunks"

\* Every embedding of the call, the query's included, has non-zero norm.
NonZeroNorms ==
    /\ NormSq(query_embedding) > 0
    /\ \A i \in 1..Len(chunk_embeddings) : NormSq(chunk_embeddings[i]) > 0

Sim(i) == cosine_similarity(chunk_embeddings[i], query_embedding)

Returned == {top_indices[i] : i \in 1..Len(top_indices)}

\* What is returned is a top-k set: no chunk left out is more similar to the
\* query than a chunk returned.
TopKSet ==
    \A i \in Returned : \A j \in (1..Len(chunks)) \ Returned : Sim(j) <= Sim(i)

\* The positions whose embedding is the query embedding itself.
EqualToQuery == {i \in 1..Len(chunks) : chunk_embeddings[i] = query_embedding}

\* C2 as stated: for k >= 1 and embeddings of non-zero norm the result is a
\* top-k set, and when the query equals the embedding of exactly one chunk
\* and k = 1, that chunk is the one returned.
C2_Original ==
    (Retrieved /\ top_k >= 1 /\ NonZeroNorms) =>
        /\ TopKSet
        /\ (top_k = 1 /\ Cardinality(EqualToQuery) = 1) =>
               \A i \in EqualToQuery : top_indices = <<i>>

\* C2 as amended: for k >= 1 and embeddings of non-zero norm the result is a
\* top-k set, and when the query equals the embedding of exactly one chunk,
\* every other chunk is strictly less similar to the query than that one
\* (none is a positive multiple of it), and k = 1, that chunk is the one
\* returned.
C2_TopKSet ==
    (Retrieved /\ top_k >= 1 /\ NonZeroNorms) =>
        /\ TopKSet
        /\ (top_k = 1 /\ Cardinality(EqualToQuery) = 1) =>
               \A i \in EqualToQuery :
                   (\A j \in (1..Len(chunks)) \ {i} : Sim(j) < Sim(i)) =>
                       top_indices = <<i>>

\* C2's case: three chunks, the query the embedding of the second only, a
\* less similar chunk left out, k = 1 and the second chunk returned.
C2_Witness ==
    /\ Retrieved /\ NonZeroNorms /\ top_k = 1 /\ Len(chunks) = 3
    /\ EqualToQuery = {2}
    /\ Sim(1) < Sim(2) /\ Sim(3) < Sim(2)
    /\ top_indices = <<2>>

\* C3 as stated: for every top_k >= 0 exactly min(top_k, len(chunks)) chunks
\* and as many scores are returned, never more than top_k; for top_k = 0
\* both results are empty.
C3_ExactlyMinK ==
    Retrieved =>
        /\ Len(top_chunks) = Min(top_k, Len(chunks))
        /\ Len(top_scores) = Min(top_k, Len(chunks))
        /\ Len(top_chunks) <= top_k
        /\ (top_k = 0 => top_chunks = <<>> /\ top_scores = <<>>)

\* C10 as stated: among chunks of equal similarity the lower position is
\* selected in preference to the higher, and returned before it.
C10_LowerIndexFirst ==
    (Retrieved /\ NonZeroNorms) =>
        \A i, j \in 1..Len(chunks) :
            (i < j /\ Sim(i) = Sim(j)) =>
                /\ j \in Returned => i \in Returned
                /\ \A a, b \in 1..Len(top_indices) :
                       (top_indices[a] = i /\ top_indices[b] = j) => a < b

\* A position whose similarity is undefined: its embedding has zero norm.
ZeroNorm(i) == NormSq(chunk_embeddings[i]) = 0

\* The positions whose similarity to the query is defined.
Defined == {i \in 1..Len(chunks) : ~ZeroNorm(i)}

\* C11 as stated: a chunk embedding of zero norm (the query's norm not
\* zero) is ranked as the lowest possible score: it is selected only when
\* fewer than top_k chunks have a defined similarity, and it never precedes
\* a chunk whose similarity is defined.
C11_ZeroNormLowest ==
    (Retrieved /\ top_k >= 1 /\ NormSq(query_embedding) > 0) =>
        \A a \in 1..Len(top_indices) :
            ZeroNorm(top_indices[a]) =>
                /\ Cardinality(Defined) < top_k
                /\ \A b \in 1..Len(top_indices) :
                       (a < b) => ZeroNorm(top_indices[b])

\* C17: for chunk embeddings of non-zero norm, every query and every k, no
\* returned score is followed by a greater one, score i is the similarity
\* of returned chunk i, and no position is returned twice.
C17_ScoresDescending ==
    (Retrieved /\ \A i \in 1..Len(chunk_embeddings) : ~ZeroNorm(i)) =>
        /\ Len(top_scores) = Len(top_indices)
        /\ Len(top_chunks) = Len(top_indices)
        /\ \A a \in 1..Len(top_indices) :
               /\ top_indices[a] \in 1..Len(chunks)
               /\ top_chunks[a] = chunks[top_indices[a]]
               /\ top_scores[a] = Sim(top_indices[a])
        /\ \A a, b \in 1..Len(top_indices) :
               (a < b) => /\ ~FloatGt(top_scores[b], top_scores[a])
                          /\ top_indices[a] # top_indices[b]

\* C17's case: three chunks of three different similarities, two of them
\* returned, the more similar first.
C17_Witness ==
    /\ Retrieved /\ NonZeroNorms /\ Len(chunks) = 3 /\ top_k = 2
    /\ Sim(1) < Sim(2) /\ Sim(2) < Sim(3)
    /\ top_indices = <<3, 2>>
    /\ top_scores = <<Sim(3), Sim(2)>>

\* C18: for an empty chunk list and any top_k >= 0, retrieve_relevant_chunks
\* returns two empty sequences.
C18_EmptyList ==
    (Retrieved /\ chunks = <<>> /\ chunk_embeddings = <<>>) =>
        (top_chunks = <<>> /\ top_scores = <<>>)

\* C18's case: the empty list, asked for its best two chunks.
C18_Witness ==
    /\ Retrieved /\ chunks = <<>> /\ chunk_embeddings = <<>> /\ top_k = 2
    /\ top_chunks = <<>> /\ top_scores = <<>>

\* ------------------------------------------------ properties: aggregator

Scored == rstage \in {"embedding_score_rag", "get_similarity_score"}

\* C9 as stated: for a non-empty list of chunk embeddings (of non-zero
\* norm, as the query) the score returned under every pooling name lies in
\* [0, 100], i.e. in 0..Scale tenths.
C9_ScoreInRange ==
    (Scored /\ chunk_embeddings # <<>> /\ NonZeroNorms) =>
        (0 <= score /\ score <= Scale)

FloatGe(x, y) == x # NaN /\ y # NaN /\ x >= y

\* C21: for a non-empty list of chunk embeddings and any query embedding,
\* the score under pooling max is greater than or equal to the score under
\* pooling mean on the same inputs.
C21_MaxAtLeastMean ==
    (rstage = "embedding_score_rag" /\ pooling = "max" /\ chunk_embeddings # <<>>) =>
        FloatGe(score, embedding_score_rag(chunk_embeddings, query_embedding,
                                           "mean", <<>>))

\* The sum the weighted policy is said to return, in thousandths times ten:
\* the first three of `srt` by 0.5, 0.3 and 0.2, fewer chunks using the
\* first weights as they are.
RankWeightedSum(srt) ==
    IF Len(srt) = 1 THEN 5 * srt[1]
    ELSE IF Len(srt) = 2 THEN 5 * srt[1] + 3 * srt[2]
    ELSE 5 * srt[1] + 3 * srt[2] + 2 * srt[3]

NaNInTop3(srt) == \E i \in 1..Min(3, Len(srt)) : srt[i] = NaN

WeightedCall ==
    rstage = "embedding_score_rag" /\ pooling = "weighted" /\ chunk_embeddings # <<>>

\* C22: with pooling weighted the score is the sum of the similarities
\* sorted descending, cut to the top 3, each times the weight of its rank in
\* [0.5, 0.3, 0.2]; fewer than 3 chunks use the first weights without
\* renormalising, so one chunk of similarity s scores 50*s.  (A nan among the
\* top 3 makes the sum nan.)
C22_WeightedTop3 ==
    WeightedCall =>
        /\ \E srt \in SortedDesc(Scores(chunk_embeddings, query_embedding)) :
              score = IF NaNInTop3(srt) THEN NaN
                      ELSE RoundDiv(RankWeightedSum(srt), 10)
        /\ (Len(chunk_embeddings) = 1 /\ NonZeroNorms) =>
               score = RoundDiv(5 * Sim(1), 10)

\* One chunk of similarity 1.0 scored 50.0, and three chunks with distinct
\* similarities scored by rank.
C22_Witness ==
    /\ WeightedCall /\ NonZeroNorms
    /\ \/ Len(chunk_embeddings) = 1 /\ Sim(1) = Scale /\ score = Scale \div 2
       \/ /\ Len(chunk_embeddings) = 3
          /\ Sim(1) < Sim(2) /\ Sim(2) < Sim(3)
          /\ score = RoundDiv(5 * Sim(3) + 3 * Sim(2) + 2 * Sim(1), 10)

\* C23: for an empty list of chunk embeddings embedding_score_rag returns
\* 0.0 under every pooling name, known or unknown, and so does
\* RAGEmbedder.get_similarity_score.
C23_EmptyScoresZero ==
    (Scored /\ chunk_embeddings = <<>>) => score = 0

\* The empty list scored under a pooling name the code does not know.
C23_Witness ==
    /\ rstage = "embedding_score_rag" /\ pooling = "median"
    /\ chunk_embeddings = <<>> /\ score = 0

\* --------------------------------------------------- properties: pipeline

\* The content key of the candidate text of invocation p.
KeyOf(p) == get_cv_hash(args[p].cv)

\* An invocation for the candidate text of p has returned since the cache
\* was last cleared of it.
ServedBefore(p) == \E s \in served : s[1] = args[p].cv

\* C1: with no clear_cache or remove_from_cache in between, the chunk
\* embeddings of a candidate text are computed at most once: after an
\* invocation for the text has returned, no invocation for the same text is
\* in embed_cv or embed_chunks, whatever its query text is.
C1_ComputedOnce ==
    \A p \in Procs :
        pc[p] \in {"embed_cv", "embed_chunks"} => ~ServedBefore(p)

\* An invocation has taken the stored entry of a text that an earlier
\* invocation with another query text computed, and has returned.
C1_Witness ==
    \E p \in Procs :
        /\ pc[p] = "returned" /\ branch[p] = "hit"
        /\ cv_data[p].num_chunks = 3
        /\ \E s \in served : s[1] = args[p].cv /\ s[2] # args[p].jd

\* The provider raised while invocation p embedded the chunks of its
\* candidate.
RaisedInEmbedChunks(p) == pc[p] = "raised" /\ error[p].at = "embed_chunks"

\* C4: when the Vector Provider raises at any chunk of a candidate, the
\* invocation raises, returns no score, and the cache holds no entry for
\* the candidate's content key.
C4_NoEntryAfterProviderError ==
    \A p \in Procs :
        RaisedInEmbedChunks(p) =>
            /\ result[p] = None
            /\ KeyOf(p) \notin DOMAIN rag_cache

\* The provider has raised at the middle chunk of a candidate of three
\* chunks, two positions after the first and one before the last.
C4_Witness ==
    \E p \in Procs :
        /\ RaisedInEmbedChunks(p)
        /\ Len(work[p].chunks) = 3
        /\ error[p].chunk = 2
        /\ Len(work[p].embeddings) = 1

\* The query embedding of invocation p has not been asked for yet.
JdEmbedNotIssued(p) == jd_call[p] = "none"

RECURSIVE EmbedAll(_)
EmbedAll(cs) ==
    IF cs = <<>> THEN <<>> ELSE <<Embedding(Head(cs))>> \o EmbedAll(Tail(cs))

SequentialEntry(t) ==
    CvEntry(t, chunk_cv(t, DefaultMaxChars), EmbedAll(chunk_cv(t, DefaultMaxChars)))

\* Both threads were called with the text of p, missed in run_pipeline_rag
\* and in embed_cv, computed, stored, and have returned.
BothMissedAndReturned(p, q) ==
    /\ p # q /\ args[p].cv = args[q].cv
    /\ pc[p] = "returned" /\ pc[q] = "returned"
    /\ branch[p] = "miss" /\ branch[q] = "miss"

\* C13: when two concurrent invocations for one text both miss, both store
\* and, after both have finished, the cache holds for the key the entry a
\* single computation would have stored; both were served that entry, and
\* storing it once more leaves the cache as it is.
C13_BothMissOneEntry ==
    \A p, q \in DOMAIN pc :
        BothMissedAndReturned(p, q) =>
            /\ KeyOf(p) \in DOMAIN rag_cache
            /\ rag_cache[KeyOf(p)] = SequentialEntry(args[p].cv)
            /\ cv_data[p] = SequentialEntry(args[p].cv)
            /\ cv_data[q] = SequentialEntry(args[p].cv)
            /\ result[p] # None /\ result[q] # None
            /\ StoreInCache(rag_cache, KeyOf(p), rag_cache[KeyOf(p)]) = rag_cache

\* Two threads have both missed for the text of three chunks, both have
\* embedded and stored, and both have returned.
C13_Witness ==
    \E p, q \in DOMAIN pc :
        /\ BothMissedAndReturned(p, q)
        /\ Len(work[p].embeddings) = 3 /\ Len(work[q].embeddings) = 3
        /\ rag_cache[KeyOf(p)].num_chunks = 3

\* C14 as stated: after clear_cache() has run all cached CV data is gone:
\* the next run_pipeline_rag for a text processed before chunks and embeds
\* it again, so an invocation is served a stored entry only if embed_cv
\* stored it after the last clear_cache().
C14_ClearForcesRecompute ==
    \A p \in Procs : branch[p] = "hit" => args[p].cv \in fresh

\* C24: on a cache miss for a candidate of n >= 1 chunks the invocation
\* calls the Vector Provider once for the chunks, with all n in the one
\* call: the n embeddings arrive together, and no invocation ever holds
\* some of them without the others.
C24_OneBatchedCall ==
    \A p \in Procs :
        (branch[p] = "miss" /\ Len(work[p].chunks) >= 1) =>
            Len(work[p].embeddings) \in {0, Len(work[p].chunks)}

\* The score of all the chunks of the text cv against the text jd,
\* whatever top_k is.
FullSetScore(cv, jd) ==
    LET cs == chunk_cv(cv, DefaultMaxChars)
    IN  embedding_score_rag([i \in 1..Len(cs) |-> Embedding(cs[i])],
                            Embedding(jd), "max", <<>>)

\* C25: the overall score of run_pipeline_rag is computed from the full chunk
\* embedding set of the candidate and the query embedding, not from the
\* retrieved top-K: for a candidate and a query it is the same for every
\* top_k.
C25_ScoreFromAllChunks ==
    \A p \in Procs :
        pc[p] = "returned" =>
            result[p].similarity_score = FullSetScore(args[p].cv, args[p].jd)

\* An invocation with top_k = 1 over a candidate of three chunks returned
\* one chunk and the score of the best of the three, which is not the
\* first.
C25_Witness ==
    \E p \in Procs :
        /\ pc[p] = "returned" /\ args[p].top_k = 1
        /\ Len(cv_data[p].chunks) = 3
        /\ Len(result[p].relevant_cv_chunks) = 1
        /\ result[p].similarity_score = Scale
        /\ cosine_similarity(cv_data[p].embeddings[1], jd_embedding[p]) < Scale

\* The chunk embeddings of the candidate of invocation p are at hand, one
\* for each chunk.
ChunkEmbeddingsAvailable(p) ==
    /\ cv_data[p] # None
    /\ Len(cv_data[p].embeddings) = Len(cv_data[p].chunks)
    /\ cv_data[p].chunks = chunk_cv(args[p].cv, DefaultMaxChars)

\* The provider has answered for the query of invocation p.
QueryEmbeddingAvailable(p) ==
    jd_call[p] = "ready" /\ jd_embedding[p] = Embedding(args[p].jd)

\* C26: within one invocation the retrieve stage has not started before the
\* candidate's chunk embeddings (cached or fresh) and the query embedding
\* are both available, nor the aggregate stage before the query embedding
\* is; on the hit and on the miss path.
C26_JoinBeforeRetrieve ==
    \A p \in Procs :
        /\ pc[p] \in {"score", "returned"} =>
               ChunkEmbeddingsAvailable(p) /\ QueryEmbeddingAvailable(p)
        /\ retrieved[p] # None =>
               ChunkEmbeddingsAvailable(p) /\ QueryEmbeddingAvailable(p)
        /\ result[p] # None => QueryEmbeddingAvailable(p)

\* The retrieval has run on the cache-hit path for a candidate of three
\* chunks, whose miss path ran in an earlier invocation.
C26_Witness ==
    \E p \in Procs :
        /\ pc[p] = "score" /\ branch[p] = "hit"
        /\ Len(cv_data[p].chunks) = 3
        /\ retrieved[p] # None

\* ------------------------------------------------ properties: cache writes

\* No write is in progress: the last one has returned, or has failed.
NoWriteInProgress == wcall = NoCall

\* The entry of RAGCache for key k, memory and disk together, is complete.
RagComplete(k) ==
    /\ rag_memory[k].state = "written"
    /\ rag_chunks_file[k] = Written(json_dump_list(rag_memory[k].content.chunks))
    /\ rag_emb_file[k] = Written(pickle_dump(rag_memory[k].content.embeddings))

RagNone(k) ==
    rag_memory[k] = Absent /\ rag_chunks_file[k] = Absent /\ rag_emb_file[k] = Absent

CvComplete(k) ==
    cv_memory[k].state = "written" /\ cv_file[k] = Written(json_dump_dict(cv_memory[k].content))

CvNone(k) == cv_memory[k] = Absent /\ cv_file[k] = Absent

\* C5 as stated: after a write that returned or failed at any step, the
\* cache holds for every key either the complete entry or none: no memory
\* entry without its durable copy, no chunks without their embeddings.
C5_AllOrNothing ==
    NoWriteInProgress =>
        \A k \in Keys :
            /\ RagComplete(k) \/ RagNone(k)
            /\ CvComplete(k) \/ CvNone(k)


\* ----------------------------------------------- properties: cache lookups

\* C12: CVCache.clear and RAGCache.clear run concurrently with get and
\* get_rag_data at any interleaving of their steps: no lookup raises, and a
\* lookup that starts after clear has returned, with no put in between,
\* returns absent.
C12_ClearSafe ==
    (lookup_result # NoResult) =>
        /\ lookup_result.outcome # "raised"
        /\ lookup_result.after_clear => lookup_result.outcome = "none"

\* C15: get_rag_data does not return an entry whose chunk sequence and
\* embedding sequence have different lengths: it treats it as a miss.
C15_MalformedIsMiss ==
    (lookup_result # NoResult /\ lookup_result.op = "get_rag_data"
        /\ lookup_result.outcome = "value") =>
        Len(lookup_result.value.chunks) = Len(lookup_result.value.embeddings)

\* The embedding set_rag_data's callers pair each chunk with.
EmbeddingOfChunk(c) == IF c = PlainChunk THEN <<1, 0>> ELSE <<0, 1>>

WellFormedEntry(e) ==
    /\ Len(e.chunks) = Len(e.embeddings)
    /\ e.num_chunks = Len(e.chunks)
    /\ \A i \in 1..Len(e.chunks) : e.embeddings[i] = EmbeddingOfChunk(e.chunks[i])

\* C16: each entry present in the RAG cache, in memory or as a pair of files
\* no call is working on, has len(chunks) == len(embeddings) == num_chunks,
\* with embeddings[i] the embedding of chunks[i].
C16_EntryInvariant ==
    \A k \in Keys :
        /\ rag_memory[k] # Absent => WellFormedEntry(rag_memory[k].content)
        /\ (CacheQuiet /\ rag_chunks_file[k].state = "written"
                /\ rag_emb_file[k].state = "written") =>
               WellFormedEntry(RagEntry(json_load_list(rag_chunks_file[k].content),
                                        pickle_load(rag_emb_file[k].content)))


\* ---------------------------------------------- properties: cache round trip

\* The lookup was called for a key whose last write had returned, with no
\* write and no clear of it begun since.
AfterSet == lookup_result # NoResult /\ lookup_result.stored # None

\* C27: set_rag_data(key, chunks, embeddings) followed by get_rag_data(key),
\* and set(key, data) followed by get(key), return an entry with the chunk
\* and embedding sequences (the data) that were stored, from the memory
\* cache and, the memory cache empty, from disk.
C27_RoundTrip ==
    AfterSet =>
        /\ lookup_result.outcome = "value"
        /\ IF lookup_result.op = "get_rag_data"
           THEN /\ lookup_result.value.chunks = lookup_result.stored.chunks
                /\ lookup_result.value.embeddings = lookup_result.stored.embeddings
           ELSE lookup_result.value = lookup_result.stored

\* get_rag_data has loaded from disk the two chunks stored, one of them with
\* a newline, a quote and a backslash.
C27_Witness ==
    /\ AfterSet /\ lookup_result.op = "get_rag_data"
    /\ lookup_result.at = "install"
    /\ lookup_result.value.chunks = <<PlainChunk, QuotedChunk>>
    /\ lookup_result.value.embeddings = << <<1, 0>>, <<0, 1>> >>


\* ----------------------------------------------- properties: run_pipeline

\* The invocation of run_pipeline returned, and a run for the same CV text
\* had returned before it, after the last clear_cache.
SecondRunReturned == legacy_run.pc = "returned" /\ legacy_run.first # None

\* C28: after clear_cache and one successful run_pipeline for a CV, a second
\* run_pipeline for the same CV text finds the entry the first run stored,
\* does not invoke parse_cv and does not write the cache again; the entry of
\* the first run is the one used.
C28_SecondRunUsesEntry ==
    SecondRunReturned =>
        /\ legacy_run.cached = legacy_run.first
        /\ ~legacy_run.parsed
        /\ ~legacy_run.wrote
        /\ legacy_run.cv_json = legacy_run.first.parsed

\* The second run returned with the parse the first run stored, the cache
\* holding it in memory and on disk.
C28_Witness ==
    /\ SecondRunReturned /\ ~legacy_run.parsed /\ ~legacy_run.wrote
    /\ legacy_run.cv_json = legacy_run.first.parsed
    /\ cv_memory[legacy_run.key] = Written(legacy_run.first)
    /\ cv_file[legacy_run.key] = Written(json_dump_dict(legacy_run.first))


\* ------------------------------------------------- properties: POST /rank

\* The results of the response that belong to the file uploaded at place j.
ResultsOf(j) ==
    {a \in 1..Len(rank_call.response.results) :
        rank_call.response.results[a].file = j}

\* C29: rank_multiple_cvs, given n >= 1 files that are all PDFs, returns one
\* result per uploaded file (total_cvs == n) in non-increasing score order,
\* also when the pipeline raises for some files: the request does not end
\* with the exception, a failing file has a result of score 0 and
\* recommendation error, every file is processed, and no temporary file is
\* left.
C29_OneResultPerFile ==
    /\ rank_call.pc # "raised"
    /\ rank_call.pc = "returned" =>
          LET res == rank_call.response.results
              n == Len(rank_call.files)
          IN  /\ rank_call.response.total_cvs = n
              /\ Len(res) = n
              /\ \A j \in 1..n : Cardinality(ResultsOf(j)) = 1
              /\ \A a \in 1..(Len(res) - 1) : res[a].score >= res[a + 1].score
              /\ \A a \in 1..Len(res) :
                    /\ res[a].filename = rank_call.files[res[a].file]
                    /\ res[a].file \in rank_call.failed =>
                           res[a].score = 0 /\ res[a].recommendation = "error"
              /\ rank_call.made = 1..n
              /\ rank_call.tmp = {}

\* Three files, the pipeline raised for the first, and the two that scored
\* come before it in the response.
C29_Witness ==
    /\ rank_call.pc = "returned"
    /\ Len(rank_call.files) = 3
    /\ rank_call.failed = {1}
    /\ rank_call.response.results[3].file = 1
    /\ rank_call.response.results[1].score > rank_call.response.results[2].score
    /\ rank_call.tmp = {}

\* ------------------------------------------- properties: stored entries

\* What the cache of run_pipeline holds for k: the answer get(k) would give.
CvHeld(mem, file, k) ==
    LET got == cv_get(mem, file, k) IN <<got.outcome, got.value>>

\* A step of run_pipeline_rag behind a cache hit, or of retrieve_for_jd
\* (retrieve_relevant_chunks within it) or embedding_score_rag on either
\* branch.
RagReadStep ==
    \E p \in Procs :
        /\ pc'[p] # pc[p] \/ jd_call'[p] # jd_call[p]
        /\ branch'[p] = "hit" \/ pc[p] \in {"retrieve_for_jd", "score"}

\* A step of run_pipeline that got the parsed CV from the cache.
LegacyHitStep ==
    /\ legacy_run.pc \in {"get", "parse", "store"}
    /\ legacy_run' # legacy_run
    /\ CachedParsed(legacy_run'.cached)

\* Both caches hold after the step what they held before it.
EntriesUnchanged ==
    /\ rag_cache' = rag_cache
    /\ cv_file' = cv_file
    /\ \A k \in Keys :
          \/ cv_memory'[k] = cv_memory[k]
          \/ /\ cv_memory[k] = Absent
             /\ CvHeld(cv_memory', cv_file', k) = CvHeld(cv_memory, cv_file, k)

\* embed_cv on a miss: one key gets a whole new entry, the others keep
\* theirs.
RagReplacedWhole ==
    \E p \in Procs :
        /\ pc[p] = "embed_chunks"
        /\ DOMAIN rag_cache' = DOMAIN rag_cache \cup {KeyOf(p)}
        /\ \A k \in DOMAIN rag_cache \ {KeyOf(p)} : rag_cache'[k] = rag_cache[k]
        /\ LET e == rag_cache'[KeyOf(p)]
           IN  /\ e.chunks = chunk_cv(args[p].cv, DefaultMaxChars)
               /\ Len(e.embeddings) = Len(e.chunks)
               /\ e.num_chunks = Len(e.chunks)

\* clear_cache or remove_from_cache of RAGEmbedder: keys go, and what stays
\* is as it was.
RagEvicted ==
    /\ DOMAIN rag_cache' \subseteq DOMAIN rag_cache
    /\ \A k \in DOMAIN rag_cache' : rag_cache'[k] = rag_cache[k]

\* What the cache of run_pipeline holds for k changed by set on a miss, or
\* by clear.
CvReplacedOrEvicted(k) ==
    \/ /\ legacy_run.pc = "store" /\ legacy_run.key = k
       /\ ~Truthy(legacy_run.cached)
       /\ CvHeld(cv_memory', cv_file', k) =
              <<"value", [parsed |-> legacy_run.cv_json,
                          clean_text |-> CvDataOf(k).clean_text]>>
    \/ /\ CvHeld(cv_memory', cv_file', k) = <<"none", None>>
       /\ \A j \in Keys : CvHeld(cv_memory', cv_file', j) = <<"none", None>>

\* C30: a stored entry is never mutated in place.  Every step of
\* retrieve_for_jd, retrieve_relevant_chunks, embedding_score_rag and of the
\* cache-hit paths of run_pipeline_rag and run_pipeline leaves every stored
\* entry and the set of cached keys as they were; an entry changes only by
\* being replaced wholesale or by being evicted.
C30_EntriesNotMutated ==
    [][/\ (RagReadStep \/ LegacyHitStep) => EntriesUnchanged
       /\ rag_cache' # rag_cache => (RagReplacedWhole \/ RagEvicted)
       /\ \A k \in Keys :
             \/ cv_memory'[k] = cv_memory[k] /\ cv_file'[k] = cv_file[k]
             \/ CvHeld(cv_memory', cv_file', k) = CvHeld(cv_memory, cv_file, k)
             \/ CvReplacedOrEvicted(k)]_vars

\* run_pipeline_rag returned on a hit for a CV of several chunks of which
\* one was retrieved, while a second CV is cached, and run_pipeline
\* returned on a hit after a restart, while both of its keys are stored.
C30_Witness ==
    /\ \E p \in Procs :
          /\ pc[p] = "returned" /\ branch[p] = "hit"
          /\ KeyOf(p) \in DOMAIN rag_cache
          /\ rag_cache[KeyOf(p)].num_chunks > Len(result[p].relevant_cv_chunks)
          /\ Cardinality(DOMAIN rag_cache) >= 2
    /\ legacy_run.pc = "returned"
    /\ CachedParsed(legacy_run.cached)
    /\ ~legacy_run.wrote
    /\ \A k \in Keys : cv_file[k] # Absent

====
